---- MODULE Spec2Model ----
(***************************************************************************)
(* A model of tinycss2: the tokenizer of tinycss2/tokenizer.py (with the   *)
(* token classes of tinycss2/tokens.py it imports), the structural parser  *)
(* of tinycss2/parser.py over component-value sequences, and the node      *)
(* serializers of tinycss2/ast.py.                                         *)
(*                                                                         *)
(* Text is a sequence of characters; a character is a one-character string *)
(* ("a", "{", "\n"), or a name for a code point that has no printable      *)
(* form ("U+0000", "U+00E9", "U+FFFD").  Positions are Python's: 0-based.  *)
(* A Python exception that leaves a function is the state pc = "raised"    *)
(* with the exception's class in exc.                                      *)
(***************************************************************************)
EXTENDS Integers, Sequences, FiniteSets, TLC

(***************************************************************************)
(* Bounds of the model.                                                    *)
(***************************************************************************)
\* The input text is the concatenation of at most MaxFrags fragments.
MaxFrags == 2
\* A parser input is the concatenation of at most MaxParts token groups.
MaxParts == 3

(***************************************************************************)
(* Characters and character classes.                                       *)
(***************************************************************************)
NUL == "U+0000"
REPLACEMENT == "U+FFFD"
EACUTE == "U+00E9"
None == "None"

\* The characters whose code point is above 0xFF (tokenizer.py:192).
AboveLatin1 == {REPLACEMENT}
\* The characters outside ASCII.
NonAscii == {REPLACEMENT, EACUTE}

\* tokenizer.py:191
IdentStartLetters ==
    {"a","b","c","d","e","f","g","h","i","j","k","l","m","n","o","p","q","r",
     "s","t","u","v","w","x","y","z","A","B","C","D","E","F","G","H","I","J",
     "K","L","M","N","O","P","Q","R","S","T","U","V","W","X","Y","Z","_"}
Digits == {"0","1","2","3","4","5","6","7","8","9"}
\* tokenizer.py:56, 332, 346, 349
HexDigits == Digits \cup {"a","b","c","d","e","f","A","B","C","D","E","F"}
\* tokenizer.py:51 and _NON_WHITESPACE_CHAR_RE
WhitespaceChars == {" ", "\n", "\t"}
\* tokenizer.py:114-115
HashNameChars == IdentStartLetters \cup Digits \cup {"-"}

\* _NON_NAME_CHAR_RE: all ASCII characters other than [a-zA-Z0-9_-]
NonNameChar(c) == c \notin NonAscii /\ c \notin HashNameChars

(***************************************************************************)
(* Python's string primitives, on 0-based indices.                         *)
(***************************************************************************)
At(s, i) == s[i + 1]
\* s[lo:hi]
Slice(s, lo, hi) == IF hi <= lo THEN <<>> ELSE SubSeq(s, lo + 1, hi)
\* s.startswith(prefix, i)
StartsWith(s, prefix, i) ==
    /\ i + Len(prefix) <= Len(s)
    /\ \A k \in 1..Len(prefix) : s[i + k] = prefix[k]
\* s.find(sub, lo): the lowest index >= lo where sub starts, or -1
Find(s, sub, lo) ==
    LET hits == {i \in lo..Len(s) : StartsWith(s, sub, i)}
    IN  IF hits = {} THEN -1 ELSE CHOOSE i \in hits : \A j \in hits : i <= j
\* s.rfind(ch, lo, hi): the highest index in [lo, hi) holding ch, or -1
RFind(s, ch, lo, hi) ==
    LET hits == {i \in lo..(hi - 1) : i < Len(s) /\ At(s, i) = ch}
    IN  IF hits = {} THEN -1 ELSE CHOOSE i \in hits : \A j \in hits : j <= i
\* s.count(ch, lo, hi)
Count(s, ch, lo, hi) ==
    Cardinality({i \in lo..(hi - 1) : i < Len(s) /\ At(s, i) = ch})
\* The first index >= lo whose character is not in set, or len(s):
\* regex.search(s, lo).start() for a regex of the form [^set]|$
SkipWhile(s, lo, set) ==
    LET stops == {i \in lo..Len(s) : i = Len(s) \/ At(s, i) \notin set}
    IN  CHOOSE i \in stops : \A j \in stops : i <= j

RECURSIVE Replace1(_, _, _)
\* s.replace(ch, by) for a one-character ch
Replace1(s, ch, by) ==
    IF s = <<>> THEN <<>>
    ELSE (IF Head(s) = ch THEN by ELSE <<Head(s)>>) \o Replace1(Tail(s), ch, by)

RECURSIVE ReplaceCRLF(_)
\* s.replace('\r\n', '\n')
ReplaceCRLF(s) ==
    IF s = <<>> THEN <<>>
    ELSE IF Len(s) >= 2 /\ s[1] = "\r" /\ s[2] = "\n"
         THEN <<"\n">> \o ReplaceCRLF(Tail(Tail(s)))
         ELSE <<Head(s)>> \o ReplaceCRLF(Tail(s))

\* tokenizer.py:31-32
Preprocess(raw) ==
    Replace1(Replace1(ReplaceCRLF(Replace1(raw, NUL, <<REPLACEMENT>>)),
                      "\r", <<"\n">>),
             "\f", <<"\n">>)

(***************************************************************************)
(* Numbers.                                                                *)
(***************************************************************************)
DigitValue(c) ==
    CASE c = "0" -> 0 [] c = "1" -> 1 [] c = "2" -> 2 [] c = "3" -> 3
      [] c = "4" -> 4 [] c = "5" -> 5 [] c = "6" -> 6 [] c = "7" -> 7
      [] c = "8" -> 8 [] c = "9" -> 9
      [] c \in {"a", "A"} -> 10 [] c \in {"b", "B"} -> 11
      [] c \in {"c", "C"} -> 12 [] c \in {"d", "D"} -> 13
      [] c \in {"e", "E"} -> 14 [] c \in {"f", "F"} -> 15

RECURSIVE IntOf(_, _)
\* int(digits, base) for a non-empty run of digits of that base
IntOf(digits, base) ==
    IF digits = <<>> THEN 0
    ELSE IntOf(SubSeq(digits, 1, Len(digits) - 1), base) * base
         + DigitValue(digits[Len(digits)])

\* sys.maxunicode
MaxUnicode == 1114111

\* _NUMBER_RE.match(css, pos): [-+]?([0-9]*\.)?[0-9]+
\* end = -1 when there is no match; is_integer is "group(1) is None".
NumberMatch(css, pos) ==
    LET p1 == IF pos < Len(css) /\ At(css, pos) \in {"-", "+"}
              THEN pos + 1 ELSE pos
        d1 == SkipWhile(css, p1, Digits)
        frac == /\ d1 + 1 < Len(css)
                /\ At(css, d1) = "."
                /\ At(css, d1 + 1) \in Digits
    IN  IF p1 > Len(css) THEN [end |-> -1, is_integer |-> FALSE]
        ELSE IF frac
        THEN [end |-> SkipWhile(css, d1 + 1, Digits), is_integer |-> FALSE]
        ELSE IF d1 > p1 THEN [end |-> d1, is_integer |-> TRUE]
        ELSE [end |-> -1, is_integer |-> FALSE]

\* _SCIENTIFIC_NOTATION_RE.match(css, pos): [eE][+-]?[0-9]+ ; its end or -1
ScientificMatch(css, pos) ==
    IF ~(pos < Len(css) /\ At(css, pos) \in {"e", "E"}) THEN -1
    ELSE LET p1 == IF pos + 1 < Len(css) /\ At(css, pos + 1) \in {"+", "-"}
                   THEN pos + 2 ELSE pos + 1
             d1 == SkipWhile(css, p1, Digits)
         IN  IF p1 <= Len(css) /\ d1 > p1 THEN d1 ELSE -1

\* The value of a numeric literal [-+]?digits(.digits)?([eE][-+]?digits)? as
\* int() and float() read it: neg * m * 10^e, with m not a multiple of 10
\* (so equal numbers have equal records).
RECURSIVE Normalize(_, _, _)
Normalize(neg, m, e) ==
    IF m = 0 THEN [neg |-> FALSE, m |-> 0, e |-> 0]
    ELSE IF m % 10 = 0 THEN Normalize(neg, m \div 10, e + 1)
    ELSE [neg |-> neg, m |-> m, e |-> e]

IndexOfAny(s, set) ==
    LET hits == {i \in 0..(Len(s) - 1) : At(s, i) \in set}
    IN  IF hits = {} THEN -1 ELSE CHOOSE i \in hits : \A j \in hits : i <= j

NumericValue(representation) ==
    LET signed == representation # <<>> /\ representation[1] \in {"-", "+"}
        neg == signed /\ representation[1] = "-"
        body == IF signed THEN Tail(representation) ELSE representation
        ePos == IndexOfAny(body, {"e", "E"})
        mant == IF ePos = -1 THEN body ELSE Slice(body, 0, ePos)
        expo == IF ePos = -1 THEN <<>> ELSE Slice(body, ePos + 1, Len(body))
        eSigned == expo # <<>> /\ expo[1] \in {"-", "+"}
        eDigits == IF eSigned THEN Tail(expo) ELSE expo
        eVal == IF eSigned /\ expo[1] = "-" THEN 0 - IntOf(eDigits, 10)
                ELSE IntOf(eDigits, 10)
        dot == IndexOfAny(mant, {"."})
        intd == IF dot = -1 THEN mant ELSE Slice(mant, 0, dot)
        fracd == IF dot = -1 THEN <<>> ELSE Slice(mant, dot + 1, Len(mant))
    IN  Normalize(neg, IntOf(intd \o fracd, 10), eVal - Len(fracd))

\* int(representation) raises ValueError unless the text is [-+]?digits;
\* float(representation) reads every literal the two regexes match.
\* tokenizer.py:85, 95, 101: (int if is_integer else float)(representation)
ConversionRaises(representation, is_integer) ==
    is_integer /\ IndexOfAny(representation, {"e", "E", "."}) # -1

(***************************************************************************)
(* ascii_lower of tinycss2/__init__.py, which tokens.py imports.           *)
(***************************************************************************)
UpperCase == <<"A","B","C","D","E","F","G","H","I","J","K","L","M","N","O",
               "P","Q","R","S","T","U","V","W","X","Y","Z">>
LowerCase == <<"a","b","c","d","e","f","g","h","i","j","k","l","m","n","o",
               "p","q","r","s","t","u","v","w","x","y","z">>
LowerChar(c) ==
    IF \E i \in 1..Len(UpperCase) : UpperCase[i] = c
    THEN LowerCase[CHOOSE i \in 1..Len(UpperCase) : UpperCase[i] = c]
    ELSE c
ascii_lower(string) == [i \in 1..Len(string) |-> LowerChar(string[i])]

(***************************************************************************)
(* The token classes of tinycss2/tokens.py and, further down, the node     *)
(* classes of tinycss2/ast.py the parser builds.  Every node is a record   *)
(* with the same fields; a field a class does not have holds its default.  *)
(* number holds the numeric attribute "value" of a numeric token.  content *)
(* is a list; content_is_none tells the content None of an at-rule without *)
(* a block from the empty list.                                            *)
(***************************************************************************)
NoNumber == [neg |-> FALSE, m |-> 0, e |-> 0]
_Token(type, line, column) ==
    [type |-> type, source_line |-> line, source_column |-> column,
     value |-> <<>>, representation |-> <<>>, is_integer |-> FALSE,
     number |-> NoNumber, unit |-> <<>>, case_sensitive_unit |-> <<>>,
     range |-> <<>>, lower_value |-> <<>>, content |-> <<>>,
     content_is_none |-> FALSE, prelude |-> <<>>, name |-> <<>>,
     lower_name |-> <<>>, important |-> FALSE, kind |-> <<>>,
     at_keyword |-> <<>>, lower_at_keyword |-> <<>>, arguments |-> <<>>]
WhitespaceToken(line, column) == _Token("whitespace", line, column)
LiteralToken(line, column, value) ==
    [_Token("literal", line, column) EXCEPT !.value = value]
StringToken(line, column, value) ==
    [_Token("string", line, column) EXCEPT !.value = value]
\* range_ is <<>> for None, or <<start, end>> (code points)
UnicodeRangeToken(line, column, range_) ==
    [_Token("unicode-range", line, column) EXCEPT !.range = range_]
NumberToken(line, column, value, representation, is_integer) ==
    [_Token("number", line, column) EXCEPT
        !.number = value, !.representation = representation,
        !.is_integer = is_integer]
DimensionToken(line, column, value, representation, is_integer, unit) ==
    [_Token("dimension", line, column) EXCEPT
        !.number = value, !.representation = representation,
        !.is_integer = is_integer, !.unit = ascii_lower(unit),
        !.case_sensitive_unit = unit]

\* The node classes of tinycss2/ast.py that the parser reads and builds.
\* The message of a ParseError is free text and is not kept.
Comment(line, column, value) ==
    [_Token("comment", line, column) EXCEPT !.value = value]
IdentToken(line, column, value) ==
    [_Token("ident", line, column) EXCEPT
        !.value = value, !.lower_value = ascii_lower(value)]
AtKeywordToken(line, column, value) ==
    [_Token("at-keyword", line, column) EXCEPT
        !.value = value, !.lower_value = ascii_lower(value)]
CurlyBracketsBlock(line, column, content) ==
    [_Token("{} block", line, column) EXCEPT !.content = content]
ParseError(line, column, kind) ==
    [_Token("error", line, column) EXCEPT !.kind = kind]
Declaration(line, column, name, lower_name, value, important) ==
    [_Token("declaration", line, column) EXCEPT
        !.name = name, !.lower_name = lower_name, !.value = value,
        !.important = important]
QualifiedRule(line, column, prelude, content) ==
    [_Token("qualified-rule", line, column) EXCEPT
        !.prelude = prelude, !.content = content]
\* content is <<>> with is_none TRUE for None
AtRule(line, column, at_keyword, lower_at_keyword, prelude, content, is_none) ==
    [_Token("at-rule", line, column) EXCEPT
        !.at_keyword = at_keyword, !.lower_at_keyword = lower_at_keyword,
        !.prelude = prelude, !.content = content, !.content_is_none = is_none]

\* The DimensionToken of ast.py:389-434: unit is the unit as written (the
\* token of tokens.py keeps it in lower case)
AstDimensionToken(line, column, value, representation, is_integer, unit) ==
    [DimensionToken(line, column, value, representation, is_integer, unit)
        EXCEPT !.unit = unit]

\* ast.py:210-238, 350-386, 447-467 and 516-551, for the component values
\* parse_color reads
HashToken(line, column, value) ==
    [_Token("hash", line, column) EXCEPT !.value = value]
PercentageToken(line, column, value, representation, is_integer) ==
    [_Token("percentage", line, column) EXCEPT
        !.number = value, !.representation = representation,
        !.is_integer = is_integer]
ParenthesesBlock(line, column, content) ==
    [_Token("() block", line, column) EXCEPT !.content = content]
Function(line, column, name, arguments) ==
    [_Token("function", line, column) EXCEPT
        !.name = name, !.lower_name = ascii_lower(name),
        !.arguments = arguments]

\* LiteralToken.__eq__ (ast.py:145-146) against a string: token == text
Eq(token, text) == token.type = "literal" /\ token.value = text

(***************************************************************************)
(* The helper functions of tinycss2/tokenizer.py.  Each returns a record   *)
(* [exc, value, pos]: the exception that leaves it (None when it returns)  *)
(* and the pair it returns.                                                *)
(***************************************************************************)
Returns(value, pos) == [exc |-> None, value |-> value, pos |-> pos]
Raises(exc, pos) == [exc |-> exc, value |-> <<>>, pos |-> pos]
Min(a, b) == IF a <= b THEN a ELSE b

\* tokenizer.py:181-194, for pos < len(css)
_is_ident_start(css, pos) ==
    LET p == IF At(css, pos) = "-" /\ pos + 1 < Len(css) THEN pos + 1 ELSE pos
        c == At(css, p)
    IN  \/ c \in IdentStartLetters
        \/ c \in AboveLatin1
        \/ (c = "\\" /\ p + 1 < Len(css) /\ At(css, p + 1) # "\n")

\* tokenizer.py:197-216.  The loop body starts with a search for a non-name
\* ASCII character: when there is none up to the end, search() returns None
\* and None.start() raises AttributeError (line 208); otherwise line 209
\* reads the name chuncks, which is bound nowhere, and raises NameError.
_consume_ident(css, pos) ==
    IF ~(pos < Len(css)) THEN Returns(<<>>, pos)
    ELSE IF \A i \in pos..(Len(css) - 1) : ~NonNameChar(At(css, i))
    THEN Raises("AttributeError", pos)
    ELSE Raises("NameError", pos)

\* tokenizer.py:219-251.  _NON_STRING_CHAR_RE ends with |$ and always
\* matches, so the first statement to fail in the loop body is line 231
\* (chuncks: NameError).  With nothing after the opening quote the loop is
\* not entered and line 251 returns the empty string.
_consume_quoted_string(css, pos) ==
    IF ~(pos + 1 < Len(css)) THEN Returns(<<>>, pos + 1)
    ELSE Raises("NameError", pos + 1)

\* The first index in lo..max that is max or holds a character not in set
\* (the loops of tokenizer.py:332-333, 338-339 and 349-350).
ScanWhile(css, lo, max, set) ==
    LET stops == {i \in lo..max : i = max \/ At(css, i) \notin set}
    IN  IF max < lo THEN lo ELSE CHOOSE i \in stops : \A j \in stops : i <= j

\* tokenizer.py:322-361; pos is just after the "+".  The value returned is
\* <<>> for None, or <<start, end>> as code points.
_consume_unicode_range(css, pos) ==
    LET length == Len(css)
        p1 == ScanWhile(css, pos, Min(pos + 6, length), HexDigits)
        hex_1 == Slice(css, pos, p1)
        p2 == ScanWhile(css, p1, Min(p1 + 6 - Len(hex_1), length), {"?"})
        question_marks == p2 - p1
        dash == /\ question_marks = 0
                /\ p2 + 1 < length
                /\ At(css, p2) = "-"
                /\ At(css, p2 + 1) \in HexDigits
        \* lines 347-351: the scan starts on the "-" itself
        p3 == IF dash
              THEN ScanWhile(css, p2, Min(p2 + 6, length), HexDigits)
              ELSE p2
        hex_1q == IF question_marks > 0
                  THEN hex_1 \o [i \in 1..question_marks |-> "0"]
                  ELSE hex_1
        hex_2 == IF question_marks > 0
                 THEN hex_1 \o [i \in 1..question_marks |-> "F"]
                 ELSE IF dash THEN Slice(css, p2, p3)
                 ELSE hex_1
        start == IntOf(hex_1q, 16)
        end == IntOf(hex_2, 16)
    IN  \* int('', 16) raises ValueError (lines 354-355)
        IF hex_1q = <<>> \/ hex_2 = <<>> THEN Raises("ValueError", p3)
        ELSE IF start > MaxUnicode \/ end < start THEN Returns(<<>>, p3)
        ELSE Returns(<<start, Min(end, MaxUnicode)>>, p3)

(***************************************************************************)
(* The functions of tinycss2/parser.py.  An iterator over a list is the    *)
(* list and the number of items already taken from it; a function that     *)
(* takes items returns that number with its result.                        *)
(***************************************************************************)
NoToken == _Token("None", 0, 0)
IMPORTANT == <<"i", "m", "p", "o", "r", "t", "a", "n", "t">>
Significant(token) == token.type \notin {"whitespace", "comment"}

Items(tokens) == {tokens[i] : i \in 1..Len(tokens)}

\* The least index after it whose token is one of those, or 0
FirstAfter(tokens, it, those) ==
    LET hits == {i \in (it + 1)..Len(tokens) : tokens[i] \in those}
    IN  IF hits = {} THEN 0 ELSE CHOOSE i \in hits : \A j \in hits : i <= j

\* parser.py:22-32
_next_significant(tokens, it) ==
    LET i == FirstAfter(tokens, it, {t \in Items(tokens) : Significant(t)})
    IN  IF i = 0 THEN [token |-> NoToken, it |-> Len(tokens)]
        ELSE [token |-> tokens[i], it |-> i]

\* parser.py:87-92
_consume_remnants(tokens, it, nested) ==
    LET Stop(token) == Eq(token, <<";">>) \/ (nested /\ Eq(token, <<"}">>))
        i == FirstAfter(tokens, it, {t \in Items(tokens) : Stop(t)})
    IN  IF i = 0 THEN Len(tokens) ELSE i

\* parser.py:135-149: the body of the loop over the value, for one token
ValueStep(s, token) ==
    LET s1 == IF s.state = "value" /\ Eq(token, <<"!">>)
              THEN [s EXCEPT !.state = "bang", !.bang_position = s.i]
              ELSE IF /\ s.state = "bang"
                      /\ token.type = "ident"
                      /\ token.lower_value = IMPORTANT
              THEN [s EXCEPT !.state = "important"]
              ELSE IF Significant(token)
              THEN [s EXCEPT
                      !.state = "value",
                      !.contains_simple_block =
                          IF token.type = "{} block"
                             /\ s.contains_non_whitespace
                          THEN TRUE ELSE @,
                      !.contains_non_whitespace = TRUE]
              ELSE s
    IN  [s1 EXCEPT !.value = Append(@, token), !.i = @ + 1]

RECURSIVE ValueLoop(_, _, _)
ValueLoop(tokens, it, s) ==
    IF it >= Len(tokens) THEN s
    ELSE ValueLoop(tokens, it + 1, ValueStep(s, tokens[it + 1]))

\* parser.py:95-166
_parse_declaration(first_token, tokens, it, nested) ==
    LET name == first_token
        colon == _next_significant(tokens, it)
        s == ValueLoop(tokens, colon.it,
                       [state |-> "value", bang_position |-> 0, i |-> 0,
                        contains_non_whitespace |-> FALSE,
                        contains_simple_block |-> FALSE, value |-> <<>>])
        value == IF s.state = "important"
                 THEN SubSeq(s.value, 1, s.bang_position)
                 ELSE s.value
    IN  IF name.type # "ident"
        THEN [node |-> ParseError(name.source_line, name.source_column,
                                  <<"invalid">>),
              it |-> _consume_remnants(tokens, it, nested)]
        ELSE IF colon.token = NoToken
        THEN [node |-> ParseError(name.source_line, name.source_column,
                                  <<"invalid">>),
              it |-> _consume_remnants(tokens, colon.it, nested)]
        ELSE IF ~Eq(colon.token, <<":">>)
        THEN [node |-> ParseError(colon.token.source_line,
                                  colon.token.source_column, <<"invalid">>),
              it |-> _consume_remnants(tokens, colon.it, nested)]
        ELSE IF s.contains_simple_block /\ s.contains_non_whitespace
        THEN [node |-> ParseError(colon.token.source_line,
                                  colon.token.source_column, <<"invalid">>),
              it |-> Len(tokens)]
        ELSE [node |-> Declaration(name.source_line, name.source_column,
                                   name.value, name.lower_value, value,
                                   s.state = "important"),
              it |-> Len(tokens)]

\* A variant of _rule_error that reports the error at the start of the input
\* (as the 'empty' errors are), not at the offending token.
_rule_error_at_start(token) == ParseError(1, 1, <<"invalid">>)

\* parser.py:486-490
_rule_error(token) ==
    ParseError(token.source_line, token.source_column, <<"invalid">>)

\* A variant of _consume_qualified_rule that starts the prelude empty
\* (prelude = []) where the code starts it with the first token.
_consume_qualified_rule_empty_prelude(first_token, tokens, it, stop_token) ==
    LET Stop(token) == Eq(token, stop_token) \/ token.type = "{} block"
        i == FirstAfter(tokens, it, {t \in Items(tokens) : Stop(t)})
        prelude == SubSeq(tokens, it + 1, IF i = 0 THEN Len(tokens) ELSE i - 1)
    IN  IF Eq(first_token, stop_token)
        THEN [node |-> _rule_error(first_token), it |-> it]
        ELSE IF first_token.type = "{} block"
        THEN [node |-> QualifiedRule(first_token.source_line,
                                     first_token.source_column, <<>>,
                                     first_token.content),
              it |-> it]
        ELSE IF i = 0
        THEN [node |-> _rule_error(first_token), it |-> Len(tokens)]
        ELSE IF Eq(tokens[i], stop_token)
        THEN [node |-> _rule_error(tokens[i]), it |-> i]
        ELSE [node |-> QualifiedRule(first_token.source_line,
                                     first_token.source_column, prelude,
                                     tokens[i].content),
              it |-> i]

\* parser.py:493-528; stop_token is <<>> for None
_consume_qualified_rule(first_token, tokens, it, stop_token) ==
    LET Stop(token) == Eq(token, stop_token) \/ token.type = "{} block"
        i == FirstAfter(tokens, it, {t \in Items(tokens) : Stop(t)})
        prelude == <<first_token>>
                   \o SubSeq(tokens, it + 1,
                             IF i = 0 THEN Len(tokens) ELSE i - 1)
    IN  IF Eq(first_token, stop_token)
        THEN [node |-> _rule_error(first_token), it |-> it]
        ELSE IF first_token.type = "{} block"
        THEN [node |-> QualifiedRule(first_token.source_line,
                                     first_token.source_column, <<>>,
                                     first_token.content),
              it |-> it]
        ELSE IF i = 0
        THEN [node |-> _rule_error(prelude[Len(prelude)]),
              it |-> Len(tokens)]
        ELSE IF Eq(tokens[i], stop_token)
        THEN [node |-> _rule_error(tokens[i]), it |-> i]
        ELSE [node |-> QualifiedRule(first_token.source_line,
                                     first_token.source_column, prelude,
                                     tokens[i].content),
              it |-> i]

\* A variant of _consume_at_rule that a semicolon does not end: the at-rule
\* goes on to the next {} block.
_consume_at_rule_to_block(at_keyword, tokens, it) ==
    LET Stop(token) == token.type = "{} block"
        i == FirstAfter(tokens, it, {t \in Items(tokens) : Stop(t)})
        prelude == SubSeq(tokens, it + 1,
                          IF i = 0 THEN Len(tokens) ELSE i - 1)
    IN  [node |-> AtRule(at_keyword.source_line, at_keyword.source_column,
                         at_keyword.value, at_keyword.lower_value, prelude,
                         IF i # 0 THEN tokens[i].content ELSE <<>>, i = 0),
         it |-> IF i = 0 THEN Len(tokens) ELSE i]

\* parser.py:454-483
_consume_at_rule(at_keyword, tokens, it) ==
    LET Stop(token) == token.type = "{} block" \/ Eq(token, <<";">>)
        i == FirstAfter(tokens, it, {t \in Items(tokens) : Stop(t)})
        prelude == SubSeq(tokens, it + 1,
                          IF i = 0 THEN Len(tokens) ELSE i - 1)
        block == i # 0 /\ tokens[i].type = "{} block"
    IN  [node |-> AtRule(at_keyword.source_line, at_keyword.source_column,
                         at_keyword.value, at_keyword.lower_value, prelude,
                         IF block THEN tokens[i].content ELSE <<>>, ~block),
         it |-> IF i = 0 THEN Len(tokens) ELSE i]

\* parser.py:434-451
_consume_rule(first_token, tokens, it) ==
    IF first_token.type = "at-keyword"
    THEN _consume_at_rule(first_token, tokens, it)
    ELSE _consume_qualified_rule(first_token, tokens, it, <<>>)

\* parser.py:169-187
_consume_blocks_content(first_token, tokens, it) ==
    LET Stop(token) == Eq(token, <<";">>) \/ token.type = "{} block"
        collect == ~Eq(first_token, <<";">>) /\ first_token.type # "{} block"
        i == IF collect
             THEN FirstAfter(tokens, it, {t \in Items(tokens) : Stop(t)})
             ELSE 0
        semicolon == i # 0 /\ Eq(tokens[i], <<";">>)
        declaration_tokens ==
            IF ~collect THEN <<>>
            ELSE SubSeq(tokens, it + 1,
                        IF i = 0 THEN Len(tokens)
                        ELSE IF semicolon THEN i - 1 ELSE i)
        semicolon_token == IF semicolon THEN <<tokens[i]>> ELSE <<>>
        it1 == IF ~collect THEN it ELSE IF i = 0 THEN Len(tokens) ELSE i
        declaration == _parse_declaration(first_token, declaration_tokens,
                                          0, TRUE).node
        chained == declaration_tokens \o semicolon_token
        rule == _consume_qualified_rule(
                    first_token, chained \o SubSeq(tokens, it1 + 1, Len(tokens)),
                    0, <<";">>)
    IN  IF declaration.type = "declaration"
        THEN [node |-> declaration, it |-> it1]
        ELSE [node |-> rule.node,
              it |-> IF rule.it > Len(chained)
                     THEN it1 + (rule.it - Len(chained)) ELSE it1]

\* A variant of _consume_declaration_in_list that also stops at a {} block,
\* as _consume_blocks_content does.
_consume_declaration_in_list_to_block(first_token, tokens, it) ==
    LET Stop(token) == Eq(token, <<";">>) \/ token.type = "{} block"
        i == FirstAfter(tokens, it, {t \in Items(tokens) : Stop(t)})
        other_declaration_tokens ==
            SubSeq(tokens, it + 1, IF i = 0 THEN Len(tokens) ELSE i - 1)
    IN  [node |-> _parse_declaration(first_token, other_declaration_tokens,
                                     0, TRUE).node,
         it |-> IF i = 0 THEN Len(tokens) ELSE i]

\* parser.py:190-201
_consume_declaration_in_list(first_token, tokens, it) ==
    LET Semicolon(token) == Eq(token, <<";">>)
        i == FirstAfter(tokens, it, {t \in Items(tokens) : Semicolon(t)})
        other_declaration_tokens ==
            SubSeq(tokens, it + 1, IF i = 0 THEN Len(tokens) ELSE i - 1)
    IN  [node |-> _parse_declaration(first_token, other_declaration_tokens,
                                     0, TRUE).node,
         it |-> IF i = 0 THEN Len(tokens) ELSE i]

(***************************************************************************)
(* The inputs: every concatenation of at most MaxFrags of these fragments. *)
(***************************************************************************)
Fragments ==
    { <<" ">>, <<"\n">>, <<"\r">>, <<NUL>>, <<EACUTE>>,
      <<"1">>, <<"1", "%">>, <<"2", ".", "5">>, <<"e", "3">>, <<"-", "2">>,
      <<"a">>, <<"{">>, <<"[">>, <<"(">>, <<"}">>, <<")">>, <<"\"">>,
      <<"/", "*">>, <<"*", "/">>, <<"/", "*", "\n", "*", "/">>,
      <<"<", "!", "-", "-">>, <<"-", "-", ">">>, <<"|", "|">>,
      <<"~">>, <<"=">>, <<";">>, <<"@">>, <<"#">>,
      <<"U", "+", "1">>, <<"u", "+", "?">>, <<"\\">>,
      <<"u", "r", "l", "(">> }

RECURSIVE Concat(_)
Concat(seqs) == IF seqs = <<>> THEN <<>> ELSE Head(seqs) \o Concat(Tail(seqs))

Inputs ==
    UNION { {Concat(f) : f \in [1..n -> Fragments]} : n \in 0..MaxFrags }

\* The bodies of the loops of the four functions that return a list, for the
\* token after the it already taken: the nodes the body appends to result,
\* and the items taken when it ends.
Insignificant(token, it, skip_comments, skip_whitespace) ==
    [nodes |-> IF token.type = "whitespace"
               THEN (IF skip_whitespace THEN <<>> ELSE <<token>>)
               ELSE (IF skip_comments THEN <<>> ELSE <<token>>),
     it |-> it + 1]
Appends(consumed) == [nodes |-> <<consumed.node>>, it |-> consumed.it]
Skips(it) == [nodes |-> <<>>, it |-> it + 1]

\* parser.py:240-252
BlocksContentsIteration(tokens, it, skip_comments, skip_whitespace) ==
    LET token == tokens[it + 1]
    IN  IF ~Significant(token)
        THEN Insignificant(token, it, skip_comments, skip_whitespace)
        ELSE IF token.type = "at-keyword"
        THEN Appends(_consume_at_rule(token, tokens, it + 1))
        ELSE IF ~Eq(token, <<";">>)
        THEN Appends(_consume_blocks_content(token, tokens, it + 1))
        ELSE Skips(it)

\* parser.py:292-304
DeclarationListIteration(tokens, it, skip_comments, skip_whitespace) ==
    LET token == tokens[it + 1]
    IN  IF ~Significant(token)
        THEN Insignificant(token, it, skip_comments, skip_whitespace)
        ELSE IF token.type = "at-keyword"
        THEN Appends(_consume_at_rule(token, tokens, it + 1))
        ELSE IF ~Eq(token, <<";">>)
        THEN Appends(_consume_declaration_in_list(token, tokens, it + 1))
        ELSE Skips(it)

\* parser.py:376-385
RuleListIteration(tokens, it, skip_comments, skip_whitespace) ==
    LET token == tokens[it + 1]
    IN  IF ~Significant(token)
        THEN Insignificant(token, it, skip_comments, skip_whitespace)
        ELSE Appends(_consume_rule(token, tokens, it + 1))

\* A variant of StylesheetIteration that starts a rule at <!-- and --> too
StylesheetIterationKeeping(tokens, it, skip_comments, skip_whitespace) ==
    LET token == tokens[it + 1]
    IN  IF ~Significant(token)
        THEN Insignificant(token, it, skip_comments, skip_whitespace)
        ELSE Appends(_consume_rule(token, tokens, it + 1))

\* parser.py:421-430
StylesheetIteration(tokens, it, skip_comments, skip_whitespace) ==
    LET token == tokens[it + 1]
    IN  IF ~Significant(token)
        THEN Insignificant(token, it, skip_comments, skip_whitespace)
        ELSE IF ~(Eq(token, <<"<", "!", "-", "-">>)
                  \/ Eq(token, <<"-", "-", ">">>))
        THEN Appends(_consume_rule(token, tokens, it + 1))
        ELSE Skips(it)

\* The inputs of the parser: lists of component values, every concatenation
\* of at most MaxParts of these groups.  The nodes are positioned in the
\* order of the list, two to a line; the content of a block comes after its
\* opening bracket.
Groups ==
    { <<IdentToken(0, 0, <<"a">>), LiteralToken(0, 0, <<":">>)>>,
      <<IdentToken(0, 0, <<"b">>)>>,
      <<LiteralToken(0, 0, <<"!">>)>>,
      <<LiteralToken(0, 0, <<"!">>),
        IdentToken(0, 0, <<"I", "m", "p", "o", "r", "t", "a", "n", "t">>)>>,
      <<LiteralToken(0, 0, <<";">>)>>,
      <<WhitespaceToken(0, 0)>>,
      <<Comment(0, 0, <<"x">>)>>,
      <<CurlyBracketsBlock(0, 0, <<IdentToken(0, 0, <<"c">>)>>)>>,
      <<AtKeywordToken(0, 0, <<"m">>)>>,
      <<LiteralToken(0, 0, <<"<", "!", "-", "-">>)>>,
      <<LiteralToken(0, 0, <<"-", "-", ">">>)>> }

At_(node, source_line, source_column) ==
    [node EXCEPT !.source_line = source_line, !.source_column = source_column]

Place(nodes) ==
    [i \in 1..Len(nodes) |->
        LET source_line == 1 + ((i - 1) \div 2)
            source_column == 1 + 3 * ((i - 1) % 2)
            node == At_(nodes[i], source_line, source_column)
        IN  [node EXCEPT !.content =
                [k \in 1..Len(@) |-> At_(@[k], source_line, source_column + k)]]]

ParserInputs ==
    UNION { {Place(Concat(g)) : g \in [1..n -> Groups]} : n \in 0..MaxParts }

ListFunctions == {"parse_declaration_list", "parse_blocks_contents",
                  "parse_rule_list", "parse_stylesheet"}
OneFunctions == {"parse_one_component_value", "parse_one_declaration",
                 "parse_one_rule"}

(***************************************************************************)
(* The functions of tinycss2/__init__.py and tinycss2/utils.py, and        *)
(* tinycss2/bytes.py.  What a call gives is a record: the value returned   *)
(* (is_none tells None from a value), or the exception raised.             *)
(***************************************************************************)
Returned(value) == [exc |-> None, is_none |-> FALSE, value |-> value]
ReturnedNone == [exc |-> None, is_none |-> TRUE, value |-> <<>>]
Raised(exc) == [exc |-> exc, is_none |-> FALSE, value |-> <<>>]

\* utils.py:1-3: the lowered string is computed and dropped; the function
\* has no return statement
utils_ascii_lower(string) == ReturnedNone

\* while token_list[-1].type == 'whitespace': token_list.pop()
\* (__init__.py:85-86, utils.py:16-17); [-1] of an empty list raises
RECURSIVE PopWhitespace(_)
PopWhitespace(token_list) ==
    IF token_list = <<>> THEN Raised("IndexError")
    ELSE IF token_list[Len(token_list)].type = "whitespace"
    THEN PopWhitespace(SubSeq(token_list, 1, Len(token_list) - 1))
    ELSE Returned(token_list)

\* The loop of strip_whitespace_tokens with enumerate counting from start:
\* i is the count at the first token that is not whitespace, and
\* token_list[i:] is a new list
StripEnumerating(token_list, start) ==
    LET others == {k \in 1..Len(token_list) :
                      token_list[k].type # "whitespace"}
        k == CHOOSE k \in others : \A j \in others : k <= j
        i == (k - 1) + start
    IN  IF others = {} THEN Returned(<<>>)
        ELSE PopWhitespace(SubSeq(token_list, i + 1, Len(token_list)))

\* __init__.py:75-88
strip_whitespace_tokens(token_list) == StripEnumerating(token_list, 0)
\* utils.py:6-19: enumerate(token_list, 1)
utils_strip_whitespace_tokens(token_list) == StripEnumerating(token_list, 1)

\* webencodings.lookup (imported at bytes.py:1 and __init__.py:1): the
\* label without its leading and trailing ASCII whitespace, in lower case,
\* names an encoding or nothing (<<>>).  No label (None) is <<>> too.
NoLabel == <<>>
NoEncoding == <<>>
UTF8 == <<"u", "t", "f", "-", "8">>
LabelWhitespace == {" ", "\n", "\t", "\r"}
RECURSIVE StripLabel(_)
StripLabel(label) ==
    IF label = <<>> THEN <<>>
    ELSE IF Head(label) \in LabelWhitespace THEN StripLabel(Tail(label))
    ELSE IF label[Len(label)] \in LabelWhitespace
    THEN StripLabel(SubSeq(label, 1, Len(label) - 1))
    ELSE label
lookup(label) ==
    LET name == ascii_lower(StripLabel(label))
    IN  CASE name \in {<<"u", "t", "f", "-", "8">>, <<"u", "t", "f", "8">>} -> UTF8
          [] name \in {<<"l", "a", "t", "i", "n", "1">>, <<"w", "i", "n", "d", "o", "w", "s", "-", "1", "2", "5", "2">>} -> <<"w", "i", "n", "d", "o", "w", "s", "-", "1", "2", "5", "2">>
          [] name = <<"u", "t", "f", "-", "1", "6", "b", "e">> -> <<"u", "t", "f", "-", "1", "6", "b", "e">>
          [] name = <<"u", "t", "f", "-", "1", "6", "l", "e">> -> <<"u", "t", "f", "-", "1", "6", "l", "e">>
          [] OTHER -> NoEncoding

\* webencodings.decode(css_bytes, fallback): the text and the encoding it
\* was decoded with (the bytes of the inputs below are ASCII and start with
\* no byte order mark)
decode(css_bytes, fallback) == [css_string |-> css_bytes, encoding |-> fallback]

AT_CHARSET == <<"@", "c", "h", "a", "r", "s", "e", "t", " ", "\"">>

\* bytes.py:7-43 (and __init__.py:7-48, which returns the text alone).
\* Line 30 calls css_bytes.find('"', 10, 100) with a str on a bytes object:
\* bytes.find raises TypeError, so lines 31-36 are never reached and
\* valid_at_charset is never true.
decode_stylesheet_bytes(css_bytes, protocol_encoding, link_encoding, document_encoding) ==
    IF lookup(protocol_encoding) # NoEncoding
    THEN Returned([decoded |-> decode(css_bytes, lookup(protocol_encoding)),
                   valid_at_charset |-> FALSE])
    ELSE IF StartsWith(css_bytes, AT_CHARSET, 0)
    THEN Raised("TypeError")
    ELSE IF lookup(link_encoding) # NoEncoding
    THEN Returned([decoded |-> decode(css_bytes, lookup(link_encoding)),
                   valid_at_charset |-> FALSE])
    ELSE IF lookup(document_encoding) # NoEncoding
    THEN Returned([decoded |-> decode(css_bytes, lookup(document_encoding)),
                   valid_at_charset |-> FALSE])
    ELSE Returned([decoded |-> decode(css_bytes, UTF8),
                   valid_at_charset |-> FALSE])

\* parse_component_value_list, which bytes.py:3 and parser.py:4 import from
\* tokenizer.py and tokenizer.py does not define: the component values of
\* a text of whitespace, comments, names, at-keywords, double-quoted strings
\* without escapes, {} blocks and delimiters, from index p to index stop.
\* The index of the } that closes the { at p, or stop
RECURSIVE BlockClose(_, _, _, _)
BlockClose(css, p, stop, depth) ==
    IF p >= stop THEN stop
    ELSE IF At(css, p) = "{" THEN BlockClose(css, p + 1, stop, depth + 1)
    ELSE IF At(css, p) = "}" /\ depth = 1 THEN p
    ELSE IF At(css, p) = "}" THEN BlockClose(css, p + 1, stop, depth - 1)
    ELSE BlockClose(css, p + 1, stop, depth)
RECURSIVE ComponentValuesFrom(_, _, _)
ComponentValuesFrom(css, p, stop) ==
    IF p >= stop THEN <<>>
    ELSE LET NameEnd(text, k) == SkipWhile(text, k, HashNameChars \cup NonAscii)
             StringClose(text, k) ==
                 LET hits == {i \in (k + 1)..Len(text) :
                                 i = Len(text) \/ At(text, i) \in {"\"", "\n"}}
                 IN  CHOOSE i \in hits : \A j \in hits : i <= j
             ch == At(css, p)
             line == 1 + Count(css, "\n", 0, p)
             column == p - RFind(css, "\n", 0, p)
             q == StringClose(css, p)
             close == BlockClose(css, p, stop, 0)
             comment == Find(css, <<"*", "/">>, p + 2)
         IN  IF ch \in WhitespaceChars
             THEN <<WhitespaceToken(line, column)>>
                  \o ComponentValuesFrom(css, SkipWhile(css, p, WhitespaceChars),
                                         stop)
             ELSE IF StartsWith(css, <<"/", "*">>, p)
             THEN (IF comment = -1
                   THEN <<Comment(line, column, Slice(css, p + 2, stop))>>
                   ELSE <<Comment(line, column, Slice(css, p + 2, comment))>>
                        \o ComponentValuesFrom(css, comment + 2, stop))
             ELSE IF ch = "{"
             THEN <<CurlyBracketsBlock(line, column,
                        ComponentValuesFrom(css, p + 1, close))>>
                  \o ComponentValuesFrom(css, close + 1, stop)
             ELSE IF StartsWith(css, <<"<", "!", "-", "-">>, p)
             THEN <<LiteralToken(line, column, <<"<", "!", "-", "-">>)>>
                  \o ComponentValuesFrom(css, p + 4, stop)
             ELSE IF StartsWith(css, <<"-", "-", ">">>, p)
             THEN <<LiteralToken(line, column, <<"-", "-", ">">>)>>
                  \o ComponentValuesFrom(css, p + 3, stop)
             ELSE IF ch = "@" /\ NameEnd(css, p + 1) > p + 1
             THEN <<AtKeywordToken(line, column,
                                   Slice(css, p + 1, NameEnd(css, p + 1)))>>
                  \o ComponentValuesFrom(css, NameEnd(css, p + 1), stop)
             ELSE IF ch = "\"" /\ q < Len(css) /\ At(css, q) = "\""
             THEN <<StringToken(line, column, Slice(css, p + 1, q))>>
                  \o ComponentValuesFrom(css, q + 1, stop)
             ELSE IF ch = "\""
             THEN <<ParseError(line, column, <<"bad-string">>)>>
                  \o ComponentValuesFrom(css, q, stop)
             ELSE IF ch \in IdentStartLetters \cup NonAscii
             THEN <<IdentToken(line, column, Slice(css, p, NameEnd(css, p)))>>
                  \o ComponentValuesFrom(css, NameEnd(css, p), stop)
             ELSE <<LiteralToken(line, column, <<ch>>)>>
                  \o ComponentValuesFrom(css, p + 1, stop)
parse_component_value_list(css) == ComponentValuesFrom(css, 0, Len(css))

\* parse_stylesheet (parser.py:389-431) from the token after the first
\* taken ones
RECURSIVE StylesheetFrom(_, _, _, _)
StylesheetFrom(nodes, taken, no_comments, no_whitespace) ==
    IF taken >= Len(nodes) THEN <<>>
    ELSE LET iteration == StylesheetIteration(nodes, taken, no_comments,
                                              no_whitespace)
         IN  iteration.nodes
             \o StylesheetFrom(nodes, iteration.it, no_comments, no_whitespace)

\* bytes.py:46-79.  next(tokens) of an iterator at its end raises
\* StopIteration; an assertion that fails raises AssertionError.
parse_stylesheet_bytes(css_bytes, protocol_encoding, link_encoding, document_encoding) ==
    LET decoded == decode_stylesheet_bytes(css_bytes, protocol_encoding,
                                           link_encoding, document_encoding)
        css_string == decoded.value.decoded.css_string
        valid_at_charset == decoded.value.valid_at_charset
        tokens == parse_component_value_list(css_string)
        \* lines 75-78, in order
        Asserted(i) ==
            CASE i = 1 -> tokens[1].type = "at-keyword"
              [] i = 2 -> tokens[2].type = "whitespace"
              [] i = 3 -> tokens[3].type = "string"
              [] i = 4 -> Eq(tokens[4], <<";">>)
        failing == {i \in 1..4 : Len(tokens) < i \/ ~Asserted(i)}
        first_failing == CHOOSE i \in failing : \A j \in failing : i <= j
    IN  IF decoded.exc # None THEN Raised(decoded.exc)
        ELSE IF ~valid_at_charset
        THEN Returned(StylesheetFrom(tokens, 0, FALSE, FALSE))
        ELSE IF failing # {}
        THEN (IF Len(tokens) < first_failing THEN Raised("StopIteration")
              ELSE Raised("AssertionError"))
        ELSE Returned(StylesheetFrom(tokens, 4, FALSE, FALSE))

(***************************************************************************)
(* tinycss2/color4.py.  A Color is kept as its function_name, its space    *)
(* and its alpha; the channels (args and params) are floating point        *)
(* arithmetic on values already checked and are not kept.  alpha is the    *)
(* fraction num / den.                                                     *)
(***************************************************************************)
\* min(1, max(0, value / scale)) (lines 193 and 195) of the value
\* m * 10^e of a numeric token, as a fraction
Clip(n, scale) ==
    LET RECURSIVE Pow10(_)
        Pow10(k) == IF k <= 0 THEN 1 ELSE 10 * Pow10(k - 1)
        num == IF n.e >= 0 THEN n.m * Pow10(n.e) ELSE n.m
        den == scale * (IF n.e >= 0 THEN 1 ELSE Pow10(0 - n.e))
    IN  IF n.neg \/ num = 0 THEN [num |-> 0, den |-> 1]
        ELSE IF num >= den THEN [num |-> 1, den |-> 1]
        ELSE [num |-> num, den |-> den]

Color(function_name, space, alpha) ==
    [kind |-> "Color", function_name |-> function_name, space |-> space,
     alpha |-> alpha]
currentColor ==
    [kind |-> "currentColor", function_name |-> <<>>, space |-> <<>>,
     alpha |-> [num |-> 1, den |-> 1]]

\* The classes of ast.py whose instances have an attribute value
HasValue(node) ==
    node.type \in {"comment", "literal", "ident", "at-keyword", "hash",
                   "string", "url", "number", "percentage", "dimension",
                   "declaration"}
\* values = [arg.value for arg in args] raises AttributeError otherwise
ValuesRaise(args) == \E i \in 1..Len(args) : ~HasValue(args[i])
IsNone(arg) == arg.type = "ident" /\ arg.lower_value = <<"n", "o", "n", "e">>

\* color4.py:12-16
SPACES ==
    {<<"s", "r", "g", "b">>, <<"s", "r", "g", "b", "-", "l", "i", "n", "e", "a", "r">>, <<"d", "i", "s", "p", "l", "a", "y", "-", "p", "3">>, <<"a", "9", "8", "-", "r", "g", "b">>, <<"p", "r", "o", "p", "h", "o", "t", "o", "-", "r", "g", "b">>,
     <<"r", "e", "c", "2", "0", "2", "0">>, <<"x", "y", "z">>, <<"x", "y", "z", "-", "d", "5", "0">>, <<"x", "y", "z", "-", "d", "6", "5">>}
\* color4.py:431-434: the keywords of color3.py, which is not in the
\* repository, and rebeccapurple
_COLOR_KEYWORDS == {<<"r", "e", "d">>, <<"r", "e", "b", "e", "c", "c", "a", "p", "u", "r", "p", "l", "e">>}
\* _HASH_REGEXPS of color3.py: 8, 4, 6 or 3 hexadecimal digits
HashMatches(value) ==
    /\ Len(value) \in {3, 4, 6, 8}
    /\ \A i \in 1..Len(value) : value[i] \in HexDigits

\* color4.py:182-195
_parse_alpha(args) ==
    IF Len(args) = 0 THEN Returned([num |-> 1, den |-> 1])
    ELSE IF Len(args) = 1 /\ args[1].type = "number"
    THEN Returned(Clip(args[1].number, 1))
    ELSE IF Len(args) = 1 /\ args[1].type = "percentage"
    THEN Returned(Clip(args[1].number, 100))
    ELSE ReturnedNone

\* color4.py:415-428: the hue is a number, an angle or none
_parse_hue(token) ==
    \/ token.type = "number"
    \/ /\ token.type = "dimension"
       /\ token.unit \in {<<"d", "e", "g">>, <<"g", "r", "a", "d">>, <<"r", "a", "d">>, <<"t", "u", "r", "n">>}
    \/ IsNone(token)

\* lines 207-210: the types of the arguments, none taken one by one as a
\* number if the list has a number by then, else as a percentage
RECURSIVE NoneTypes(_, _, _)
NoneTypes(args, types, i) ==
    IF i > Len(args) THEN types
    ELSE NoneTypes(args,
                   IF IsNone(args[i])
                   THEN [types EXCEPT ![i] =
                            IF \E k \in 1..Len(types) : types[k] = "number"
                            THEN "number" ELSE "percentage"]
                   ELSE types,
                   i + 1)

\* color4.py:198-218
_parse_rgb(args, alpha) ==
    LET types == NoneTypes(args, [i \in 1..Len(args) |-> args[i].type], 1)
    IN  IF ValuesRaise(args) THEN Raised("AttributeError")
        ELSE IF types \in {<<"number", "number", "number">>,
                           <<"percentage", "percentage", "percentage">>}
        THEN Returned(Color(<<"r", "g", "b">>, <<"s", "r", "g", "b">>, alpha))
        ELSE ReturnedNone

\* color4.py:221-241 and 244-268
_parse_hsl(args, alpha) ==
    IF ValuesRaise(args) THEN Raised("AttributeError")
    ELSE IF \E i \in {2, 3} : ~IsNone(args[i]) /\ args[i].type # "percentage"
    THEN ReturnedNone
    ELSE IF ~_parse_hue(args[1]) THEN ReturnedNone
    ELSE Returned(Color(<<"h", "s", "l">>, <<"s", "r", "g", "b">>, alpha))
_parse_hwb(args, alpha) ==
    IF ValuesRaise(args) THEN Raised("AttributeError")
    ELSE IF \E i \in {2, 3} : ~IsNone(args[i]) /\ args[i].type # "percentage"
    THEN ReturnedNone
    ELSE IF ~_parse_hue(args[1]) THEN ReturnedNone
    ELSE Returned(Color(<<"h", "w", "b">>, <<"s", "r", "g", "b">>, alpha))

\* An argument that is none, a percentage or a number (lines 280-286)
IsChannel(arg) ==
    IF arg.type = "ident" THEN arg.lower_value = <<"n", "o", "n", "e">>
    ELSE arg.type \in {"percentage", "number"}

\* color4.py:271-296 and 331-356
_parse_lab(args, alpha) ==
    IF ValuesRaise(args) THEN Raised("AttributeError")
    ELSE IF \E i \in 1..3 : ~IsChannel(args[i]) THEN ReturnedNone
    ELSE Returned(Color(<<"l", "a", "b">>, <<"x", "y", "z", "-", "d", "5", "0">>, alpha))
_parse_oklab(args, alpha) ==
    IF ValuesRaise(args) THEN Raised("AttributeError")
    ELSE IF \E i \in 1..3 : ~IsChannel(args[i]) THEN ReturnedNone
    ELSE Returned(Color(<<"o", "k", "l", "a", "b">>, <<"x", "y", "z", "-", "d", "6", "5">>, alpha))

\* color4.py:299-328 and 359-390 (the test of
\* line 366 asks for a proper superset of a set of two among two types and
\* is never true)
_parse_lch(args, alpha) ==
    IF ValuesRaise(args) THEN Raised("AttributeError")
    ELSE IF \E i \in 1..2 : ~IsChannel(args[i]) THEN ReturnedNone
    ELSE IF ~_parse_hue(args[3]) THEN ReturnedNone
    ELSE Returned(Color(<<"l", "c", "h">>, <<"x", "y", "z", "-", "d", "5", "0">>, alpha))
_parse_oklch(args, alpha) ==
    IF ValuesRaise(args) THEN Raised("AttributeError")
    ELSE IF \E i \in 1..2 : ~IsChannel(args[i]) THEN ReturnedNone
    ELSE IF ~_parse_hue(args[3]) THEN ReturnedNone
    ELSE Returned(Color(<<"o", "k", "l", "c", "h">>, <<"x", "y", "z", "-", "d", "6", "5">>, alpha))

\* color4.py:393-412
_parse_color(space, args, alpha) ==
    IF ValuesRaise(args) THEN Raised("AttributeError")
    ELSE IF \E i \in 1..3 : ~IsChannel(args[i]) THEN ReturnedNone
    ELSE IF space.type = "ident" /\ space.lower_value \in SPACES
    THEN Returned(Color(<<"c", "o", "l", "o", "r">>, space.lower_value, alpha))
    ELSE ReturnedNone

\* color4.py:108-179, for an input that is a component value
parse_color(input) ==
    LET token == input
        significant == SelectSeq(token.arguments, Significant)
        name == token.lower_name
        \* line 149: space, *tokens = tokens
        space == significant[1]
        tokens == IF name = <<"c", "o", "l", "o", "r">> THEN Tail(significant) ELSE significant
        length == Len(tokens)
        commas == /\ length \in {5, 7}
                  /\ \A i \in 1..length : i % 2 = 0 => Eq(tokens[i], <<",">>)
        slash == length = 5 /\ Eq(tokens[4], <<"/">>)
        old_syntax == commas
        kept == IF commas
                THEN [i \in 1..((length + 1) \div 2) |-> tokens[2 * i - 1]]
                ELSE IF length = 3 THEN tokens
                ELSE SubSeq(tokens, 1, 3) \o SubSeq(tokens, 5, 5)
        args == SubSeq(kept, 1, 3)
        alpha == _parse_alpha(SubSeq(kept, 4, Len(kept)))
    IN  CASE token.type = "ident" ->
               IF token.lower_value = <<"c", "u", "r", "r", "e", "n", "t", "c", "o", "l", "o", "r">>
               THEN Returned(currentColor)
               ELSE IF token.lower_value = <<"t", "r", "a", "n", "s", "p", "a", "r", "e", "n", "t">>
               THEN Returned(Color(<<"r", "g", "b">>, <<"s", "r", "g", "b">>, [num |-> 0, den |-> 1]))
               ELSE IF token.lower_value \in _COLOR_KEYWORDS
               THEN Returned(Color(<<"r", "g", "b">>, <<"s", "r", "g", "b">>, [num |-> 1, den |-> 1]))
               ELSE ReturnedNone
          [] token.type = "hash" ->
               IF ~HashMatches(token.value) THEN ReturnedNone
               ELSE Returned(Color(<<"r", "g", "b">>, <<"s", "r", "g", "b">>,
                        \* the fourth group, if any:
                        \* int(group * multiplier, 16) / 255
                        IF Len(token.value) = 4
                        THEN [num |-> IntOf(<<token.value[4], token.value[4]>>, 16),
                              den |-> 255]
                        ELSE IF Len(token.value) = 8
                        THEN [num |-> IntOf(SubSeq(token.value, 7, 8), 16),
                              den |-> 255]
                        ELSE [num |-> 1, den |-> 1]))
          [] token.type = "function" ->
               IF name = <<"c", "o", "l", "o", "r">> /\ significant = <<>>
               THEN Raised("ValueError")
               ELSE IF ~(commas \/ length = 3 \/ slash) THEN ReturnedNone
               ELSE IF alpha.is_none THEN ReturnedNone
               ELSE IF name \in {<<"r", "g", "b">>, <<"r", "g", "b", "a">>} THEN _parse_rgb(args, alpha.value)
               ELSE IF name \in {<<"h", "s", "l">>, <<"h", "s", "l", "a">>} THEN _parse_hsl(args, alpha.value)
               ELSE IF name = <<"h", "w", "b">> THEN _parse_hwb(args, alpha.value)
               ELSE IF name = <<"l", "a", "b">> /\ ~old_syntax
               THEN _parse_lab(args, alpha.value)
               ELSE IF name = <<"l", "c", "h">> /\ ~old_syntax
               THEN _parse_lch(args, alpha.value)
               ELSE IF name = <<"o", "k", "l", "a", "b">> /\ ~old_syntax
               THEN _parse_oklab(args, alpha.value)
               ELSE IF name = <<"o", "k", "l", "c", "h">> /\ ~old_syntax
               THEN _parse_oklch(args, alpha.value)
               ELSE IF name = <<"c", "o", "l", "o", "r">> /\ ~old_syntax
               THEN _parse_color(space, args, alpha.value)
               ELSE ReturnedNone
          [] OTHER -> ReturnedNone

(***************************************************************************)
(* The state of tokenize() (tokenizer.py:24-178) and of the functions of   *)
(* parser.py.                                                              *)
(***************************************************************************)
VARIABLES
    css,              \* the preprocessed text (line 31)
    pos,              \* line 34
    token_start_pos,  \* line 34
    line,             \* line 35
    last_newline,     \* line 36
    tokens,           \* line 37: the list tokens are appended to
    end_char,         \* line 38
    stack,            \* line 39
    pc,               \* "loop", "done" (tokenize returned) or "raised"
    exc,              \* the exception raised, or None
    pass,             \* 1: tokenizing the input; 2: tokenizing its serialization
    pass1,            \* the list the first pass returned
    fn,               \* the function called: "tokenize" or one of parser.py
    input,            \* parser.py: the component values given as input
    it,               \* parser.py: how many items the iterator tokens has given
    result,           \* parser.py: result; the value returned, for parse_one_*
    skip_comments,
    skip_whitespace

tokVars == <<css, pos, token_start_pos, line, last_newline, tokens, end_char,
             stack, pc, exc>>
parseVars == <<fn, input, it, result, skip_comments, skip_whitespace>>
vars == <<css, pos, token_start_pos, line, last_newline, tokens, end_char,
          stack, pc, exc, pass, pass1, fn, input, it, result, skip_comments,
          skip_whitespace>>

\* tokenizer.py:33-39
Start(text) ==
    /\ css = Preprocess(text)
    /\ pos = 0
    /\ token_start_pos = 0
    /\ line = 1
    /\ last_newline = -1
    /\ tokens = <<>>
    /\ end_char = None
    /\ stack = <<>>
    /\ pc = "loop"
    /\ exc = None

NoCall ==
    /\ input = <<>>
    /\ it = 0
    /\ result = <<>>
    /\ skip_comments = FALSE
    /\ skip_whitespace = FALSE

InitTok ==
    /\ \E text \in Inputs : Start(text)
    /\ pass = 1
    /\ pass1 = <<>>
    /\ fn = "tokenize"
    /\ NoCall

InitParse ==
    /\ Start(<<>>)
    /\ pass = 1
    /\ pass1 = <<>>
    /\ input \in ParserInputs
    /\ it = 0
    /\ result = <<>>
    /\ \/ /\ fn \in ListFunctions
          /\ skip_comments \in BOOLEAN
          /\ skip_whitespace \in BOOLEAN
       \/ /\ fn \in OneFunctions
          /\ skip_comments = FALSE
          /\ skip_whitespace = FALSE

Init == InitTok \/ InitParse

(***************************************************************************)
(* One iteration of the loop of tokenize (lines 41-177).                   *)
(***************************************************************************)
length == Len(css)
c == At(css, pos)
\* lines 42-47
newline == RFind(css, "\n", token_start_pos, pos)
LineNow ==
    IF newline # -1
    THEN line + 1 + Count(css, "\n", token_start_pos, newline)
    ELSE line
LastNewlineNow == IF newline # -1 THEN newline ELSE last_newline
column == pos - LastNewlineNow

\* The branch the if/elif chain of lines 51-177 takes at css[pos].  The branch
\* of lines 144-148 (c == end_char) needs an open block: end_char is None
\* until an opener sets it, and OpenBlock below never gets that far.
Branch ==
    IF c \in WhitespaceChars THEN "whitespace"
    ELSE IF /\ c \in {"U", "u"}
            /\ pos + 2 < length
            /\ At(css, pos + 1) = "+"
            /\ At(css, pos + 2) \in HexDigits \cup {"?"}
    THEN "unicode-range"
    ELSE IF _is_ident_start(css, pos) THEN "ident"
    ELSE IF NumberMatch(css, pos).end # -1 THEN "number"
    ELSE IF c = "@" THEN "@"
    ELSE IF c = "#" THEN "#"
    ELSE IF c \in {"{", "[", "("} THEN "open"
    ELSE IF c = end_char THEN "close"
    ELSE IF c \in {"\"", "'"} THEN "string"
    ELSE IF StartsWith(css, <<"/", "*">>, pos) THEN "comment"
    ELSE IF StartsWith(css, <<"<", "!", "-", "-">>, pos) THEN "<!--"
    ELSE IF StartsWith(css, <<"-", "-", ">">>, pos) THEN "-->"
    ELSE IF StartsWith(css, <<"|", "|">>, pos) THEN "||"
    ELSE IF c \in {"~", "|", "^", "$", "*"} THEN "match"
    ELSE "delim"

\* The iteration starts: the loop condition and lines 42-48.
Iteration(branch) ==
    /\ fn = "tokenize"
    /\ pc = "loop"
    /\ pos < length
    /\ Branch = branch
    /\ line' = LineNow
    /\ last_newline' = LastNewlineNow
    /\ token_start_pos' = pos
    /\ UNCHANGED <<css, end_char, stack, pass, pass1>>
    /\ UNCHANGED parseVars

\* Emit without the assignment to pos
EmitWithoutAdvance(new_tokens, new_pos) ==
    /\ tokens' = tokens \o new_tokens
    /\ pos' = pos
    /\ UNCHANGED <<pc, exc>>
\* The iteration ends normally with a token appended (or none).
Emit(new_tokens, new_pos) ==
    /\ tokens' = tokens \o new_tokens
    /\ pos' = new_pos
    /\ UNCHANGED <<pc, exc>>

\* An exception leaves tokenize.
Raise(e) ==
    /\ pc' = "raised"
    /\ exc' = e
    /\ UNCHANGED <<tokens, pos>>

\* _NON_WHITESPACE_CHAR_RE.search(css, lo).start() (lines 12 and 52): the
\* pattern is [^ \n\t]|$ and, without re.MULTILINE, $ matches at the end of
\* the text and also just before a newline that ends the text.
NonWhitespaceSearch(s, lo) ==
    LET hits == {i \in lo..Len(s) :
                    \/ i = Len(s)
                    \/ At(s, i) \notin WhitespaceChars
                    \/ i = Len(s) - 1 /\ At(s, i) = "\n"}
    IN  CHOOSE i \in hits : \A j \in hits : i <= j

\* lines 51-54
Whitespace ==
    /\ Iteration("whitespace")
    /\ Emit(<<WhitespaceToken(LineNow, column)>>,
            NonWhitespaceSearch(css, pos + 1))

\* lines 55-59
UnicodeRange ==
    /\ Iteration("unicode-range")
    /\ LET r == _consume_unicode_range(css, pos + 2)
       IN  IF r.exc # None THEN Raise(r.exc)
           ELSE Emit(<<UnicodeRangeToken(LineNow, column, r.value)>>, r.pos)

\* lines 60-77.  _consume_ident never returns for pos < length, so lines
\* 62-77 (identifier, url() and function tokens) are never reached.
Ident ==
    /\ Iteration("ident")
    /\ Raise(_consume_ident(css, pos).exc)

\* lines 79-103
Number ==
    /\ Iteration("number")
    /\ LET match == NumberMatch(css, pos)
           p == match.end
           sci == ScientificMatch(css, p)
           representation == Slice(css, pos, IF sci # -1 THEN sci ELSE p)
       IN  IF p < length /\ At(css, p) = "%"
           THEN \* lines 83-89
                Emit(<<DimensionToken(LineNow, column,
                                      NumericValue(representation),
                                      representation, match.is_integer,
                                      <<"%">>)>>,
                     p + 1)
           ELSE IF sci # -1
           THEN \* lines 91-92, then 100-103
                IF ConversionRaises(representation, match.is_integer)
                THEN Raise("ValueError")
                ELSE Emit(<<NumberToken(LineNow, column,
                                        NumericValue(representation),
                                        representation, match.is_integer)>>,
                          sci)
           ELSE IF ~(p < length)
           THEN \* line 93: _is_ident_start reads css[pos] at the end
                Raise("IndexError")
           ELSE IF _is_ident_start(css, p)
           THEN \* lines 94-96: _consume_ident does not return
                Raise(_consume_ident(css, p).exc)
           ELSE \* lines 100-103
                Emit(<<NumberToken(LineNow, column,
                                   NumericValue(representation),
                                   representation, match.is_integer)>>,
                     p)

\* lines 104-110
AtSign ==
    /\ Iteration("@")
    /\ IF pos + 1 < length /\ _is_ident_start(css, pos + 1)
       THEN Raise(_consume_ident(css, pos + 1).exc)
       ELSE Emit(<<LiteralToken(LineNow, column, <<"@">>)>>, pos + 1)

\* lines 111-122
Hash ==
    /\ Iteration("#")
    /\ IF /\ pos + 1 < length
          /\ \/ At(css, pos + 1) \in HashNameChars
             \/ /\ At(css, pos + 1) = "\\"
                /\ pos + 2 < length
                /\ At(css, pos + 2) # "\n"
       THEN Raise(_consume_ident(css, pos + 1).exc)
       ELSE Emit(<<LiteralToken(LineNow, column, <<"#">>)>>, pos + 1)

\* lines 123-143 (and 72-73).  CurlyBracketsBlock(pos, content),
\* SquareBracketsBlock(pos, content) and ParenthesesBlock(pos, content) give
\* two arguments to _Block.__init__(self, line, column, content)
\* (tokens.py:265): the call raises TypeError before anything is appended
\* or pushed, so stack stays empty and end_char stays None.
OpenBlock ==
    /\ Iteration("open")
    /\ Raise("TypeError")

\* lines 149-153
String ==
    /\ Iteration("string")
    /\ LET r == _consume_quoted_string(css, pos)
       IN  IF r.exc # None THEN Raise(r.exc)
           ELSE Emit(<<StringToken(LineNow, column, r.value)>>, r.pos)

\* lines 154-158: no token is appended for a comment
ConsumeComment ==
    /\ Iteration("comment")
    /\ LET end == Find(css, <<"*", "/">>, pos + 2)
       IN  IF end = -1
           THEN /\ pc' = "done"
                /\ pos' = -1
                /\ UNCHANGED <<tokens, exc>>
           ELSE Emit(<<>>, end + 2)

\* lines 159-161
CDO ==
    /\ Iteration("<!--")
    /\ Emit(<<LiteralToken(LineNow, column, <<"<", "!", "-", "-">>)>>, pos + 4)

\* lines 162-164
CDC ==
    /\ Iteration("-->")
    /\ Emit(<<LiteralToken(LineNow, column, <<"-", "-", ">">>)>>, pos + 3)

\* lines 165-167
Column ==
    /\ Iteration("||")
    /\ Emit(<<LiteralToken(LineNow, column, <<"|", "|">>)>>, pos + 2)

\* lines 168-174
Match ==
    /\ Iteration("match")
    /\ IF pos + 1 < length /\ At(css, pos + 1) = "="
       THEN Emit(<<LiteralToken(LineNow, column, <<c, "=">>)>>, pos + 2)
       ELSE Emit(<<LiteralToken(LineNow, column, <<c>>)>>, pos + 1)

\* lines 175-177: colon, semicolon, comma or delim; also ")", "]" and "}"
Delim ==
    /\ Iteration("delim")
    /\ Emit(<<LiteralToken(LineNow, column, <<c>>)>>, pos + 1)

\* line 178: the loop condition fails
Return ==
    /\ fn = "tokenize"
    /\ pc = "loop"
    /\ ~(pos < length)
    /\ pc' = "done"
    /\ UNCHANGED <<css, pos, token_start_pos, line, last_newline, tokens,
                   end_char, stack, exc, pass, pass1>>
    /\ UNCHANGED parseVars

(***************************************************************************)
(* Serialization.  Node.serialize (ast.py:47-51) collects what the node's  *)
(* _serialize_to writes; a token of the tokenizer is written by the        *)
(* _serialize_to of the ast.py class of the same type.  The module         *)
(* serializer.py (serialize_identifier, serialize_string_value and the     *)
(* _serialize_to of a list) is not part of the source tree: these three    *)
(* follow section 4.5 of the specification.                                *)
(***************************************************************************)
HexChars == <<"0", "1", "2", "3", "4", "5", "6", "7", "8", "9",
              "A", "B", "C", "D", "E", "F">>
RECURSIVE UpperHex(_)
\* '%X' % n
UpperHex(n) ==
    IF n < 16 THEN <<HexChars[n + 1]>>
    ELSE UpperHex(n \div 16) \o <<HexChars[(n % 16) + 1]>>

\* The code points of the characters that are escaped below.
CodePoint(ch) ==
    CASE ch = "\n" -> 10
      [] ch = " " -> 32
      [] ch = "\"" -> 34
      [] ch = "%" -> 37
      [] ch = "\\" -> 92
      [] OTHER -> 63

RECURSIVE serialize_identifier(_)
serialize_identifier(value) ==
    IF value = <<>> THEN <<>>
    ELSE (IF Head(value) \in HashNameChars \cup NonAscii
          THEN <<Head(value)>>
          ELSE <<"\\">> \o UpperHex(CodePoint(Head(value))) \o <<" ">>)
         \o serialize_identifier(Tail(value))

RECURSIVE serialize_string_value(_)
serialize_string_value(value) ==
    IF value = <<>> THEN <<>>
    ELSE (CASE Head(value) = "\"" -> <<"\\", "\"">>
            [] Head(value) = "\\" -> <<"\\", "\\">>
            [] Head(value) = "\n" -> <<"\\", "A", " ">>
            [] OTHER -> <<Head(value)>>)
         \o serialize_string_value(Tail(value))

\* ast.py:118-119, 151-152, 257-260, 307-311, 346-347 and 436-444, for the
\* types of node tokenize returns; 178-179, 205-207, 510-513 and 595-599
\* for the nodes of a declaration.
RECURSIVE serialize(_)
SerializeNode(node) ==
    CASE node.type = "whitespace" -> <<" ">>
      [] node.type = "ident" -> serialize_identifier(node.value)
      [] node.type = "at-keyword" ->
            <<"@">> \o serialize_identifier(node.value)
      [] node.type = "{} block" ->
            <<"{">> \o serialize(node.content) \o <<"}">>
      [] node.type = "declaration" ->
            serialize_identifier(node.name) \o <<":">>
            \o serialize(node.value) \o <<";">>
      [] node.type = "literal" -> node.value
      [] node.type = "string" ->
            <<"\"">> \o serialize_string_value(node.value) \o <<"\"">>
      [] node.type = "unicode-range" ->
            IF node.range[2] = node.range[1]
            THEN <<"U", "+">> \o UpperHex(node.range[1])
            ELSE <<"U", "+">> \o UpperHex(node.range[1]) \o <<"-">>
                 \o UpperHex(node.range[2])
      [] node.type = "number" -> node.representation
      [] node.type = "comment" -> <<"/", "*">> \o node.value \o <<"*", "/">>
      [] node.type = "dimension" ->
            node.representation \o
            (IF node.unit \in {<<"e">>, <<"E">>}
                \/ StartsWith(node.unit, <<"e", "-">>, 0)
                \/ StartsWith(node.unit, <<"E", "-">>, 0)
             THEN <<"\\", "6", "5", " ">>
                  \o serialize_identifier(Tail(node.unit))
             ELSE serialize_identifier(node.unit))

\* What the list serializer compares: the value of a literal, else the type.
Serialized(node) == IF node.type = "literal" THEN node.value ELSE <<node.type>>

\* The adjacent pairs that would merge when tokenized again.
BAD_PAIRS ==
    ({<<"dimension">>, <<"#">>, <<"-">>, <<"number">>}
        \X {<<"number">>, <<"dimension">>, <<"unicode-range">>})
    \cup ({<<"unicode-range">>, <<".">>, <<"+">>}
        \X {<<"number">>, <<"dimension">>})
    \cup {<<<<"dimension">>, <<"-">>>>, <<<<"dimension">>, <<"-", "-", ">">>>>,
          <<<<"@">>, <<"unicode-range">>>>, <<<<"@">>, <<"-">>>>,
          <<<<"unicode-range">>, <<"?">>>>,
          <<<<"|">>, <<"|">>>>, <<<<"/">>, <<"*">>>>}
    \cup ({<<"$">>, <<"*">>, <<"^">>, <<"~">>, <<"|">>} \X {<<"=">>})

RECURSIVE SerializeFrom(_, _)
SerializeFrom(nodes, previous) ==
    IF nodes = <<>> THEN <<>>
    ELSE (IF <<previous, Serialized(Head(nodes))>> \in BAD_PAIRS
          THEN <<"/", "*", "*", "/">>
          ELSE IF previous = <<"\\">> /\ Head(nodes).type # "whitespace"
          THEN <<"\n">>
          ELSE <<>>)
         \o SerializeNode(Head(nodes))
         \o SerializeFrom(Tail(nodes), Serialized(Head(nodes)))

serialize(nodes) == SerializeFrom(nodes, <<>>)

\* A token whose range is None has no start and no end to format.
Serializable(nodes) ==
    \A i \in 1..Len(nodes) :
        nodes[i].type = "unicode-range" => nodes[i].range # <<>>

\* test_serialization (tests/test_tinycss2.py:403-406): the list the first
\* pass returned is serialized and the text is tokenized again.
Reserialize ==
    /\ fn = "tokenize"
    /\ pc = "done"
    /\ pass = 1
    /\ pass' = 2
    /\ pass1' = tokens
    /\ IF Serializable(tokens)
       THEN /\ css' = Preprocess(serialize(tokens))
            /\ pos' = 0
            /\ token_start_pos' = 0
            /\ line' = 1
            /\ last_newline' = -1
            /\ tokens' = <<>>
            /\ pc' = "loop"
            /\ UNCHANGED <<end_char, stack, exc>>
       ELSE /\ pc' = "raised"
            /\ exc' = "TypeError"
            /\ UNCHANGED <<css, pos, token_start_pos, line, last_newline,
                           tokens, end_char, stack>>
    /\ UNCHANGED parseVars

(***************************************************************************)
(* The functions of parser.py that take an input.  A function that loops   *)
(* over the input takes one step for each iteration of its loop; the       *)
(* others take one step.                                                   *)
(***************************************************************************)
Called(name) ==
    /\ fn = name
    /\ pc = "loop"
    /\ UNCHANGED <<css, pos, token_start_pos, line, last_newline, tokens,
                   end_char, stack, exc, pass, pass1>>
    /\ UNCHANGED <<fn, input, skip_comments, skip_whitespace>>

\* The loop takes its next token: for token in tokens
Loop(name) ==
    /\ Called(name)
    /\ it < Len(input)
    /\ UNCHANGED pc

\* One iteration of the loop: result grows by what the body appends
Body(iteration) ==
    /\ result' = result \o iteration.nodes
    /\ it' = iteration.it

\* parser.py:204-253
parse_blocks_contents ==
    /\ Loop("parse_blocks_contents")
    /\ Body(BlocksContentsIteration(input, it, skip_comments, skip_whitespace))

\* parser.py:256-305
parse_declaration_list ==
    /\ Loop("parse_declaration_list")
    /\ Body(DeclarationListIteration(input, it, skip_comments,
                                     skip_whitespace))

\* parser.py:342-386
parse_rule_list ==
    /\ Loop("parse_rule_list")
    /\ Body(RuleListIteration(input, it, skip_comments, skip_whitespace))

\* parser.py:389-431
parse_stylesheet ==
    /\ Loop("parse_stylesheet")
    /\ Body(StylesheetIteration(input, it, skip_comments, skip_whitespace))

\* return result, at the end of the four loops
ReturnResult ==
    /\ fn \in ListFunctions
    /\ Called(fn)
    /\ ~(it < Len(input))
    /\ pc' = "done"
    /\ UNCHANGED <<it, result>>

\* parser.py:35-60
parse_one_component_value ==
    /\ Called("parse_one_component_value")
    /\ LET first == _next_significant(input, it)
           second == _next_significant(input, first.it)
       IN  /\ result' =
                IF first.token = NoToken
                THEN <<ParseError(1, 1, <<"empty">>)>>
                ELSE IF second.token # NoToken
                THEN <<ParseError(second.token.source_line,
                                  second.token.source_column,
                                  <<"extra-input">>)>>
                ELSE <<first.token>>
           /\ it' = second.it
    /\ pc' = "done"

\* parser.py:63-84
parse_one_declaration ==
    /\ Called("parse_one_declaration")
    /\ LET first_token == _next_significant(input, it)
           declaration == _parse_declaration(first_token.token, input,
                                             first_token.it, TRUE)
       IN  IF first_token.token = NoToken
           THEN /\ result' = <<ParseError(1, 1, <<"empty">>)>>
                /\ it' = first_token.it
           ELSE /\ result' = <<declaration.node>>
                /\ it' = declaration.it
    /\ pc' = "done"

\* parser.py:308-339
parse_one_rule ==
    /\ Called("parse_one_rule")
    /\ LET first == _next_significant(input, it)
           rule == _consume_rule(first.token, input, first.it)
           next == _next_significant(input, rule.it)
       IN  IF first.token = NoToken
           THEN /\ result' = <<ParseError(1, 1, <<"empty">>)>>
                /\ it' = first.it
           ELSE /\ result' =
                     IF next.token # NoToken
                     THEN <<ParseError(next.token.source_line,
                                       next.token.source_column,
                                       <<"extra-input">>)>>
                     ELSE <<rule.node>>
                /\ it' = next.it
    /\ pc' = "done"

\* parse_one_declaration(declaration.serialize()): the declaration returned
\* is serialized (ast.py:47-51 and 595-599) and the text is parsed again;
\* _to_token_iterator (parser.py:17-18) makes component values of a text.
Reparse ==
    /\ fn = "parse_one_declaration"
    /\ pc = "done"
    /\ pass = 1
    /\ result[1].type = "declaration"
    /\ pass' = 2
    /\ pass1' = result
    /\ input' = parse_component_value_list(serialize(result))
    /\ it' = 0
    /\ result' = <<>>
    /\ pc' = "loop"
    /\ UNCHANGED <<css, pos, token_start_pos, line, last_newline, tokens,
                   end_char, stack, exc>>
    /\ UNCHANGED <<fn, skip_comments, skip_whitespace>>

NextParse ==
    \/ parse_blocks_contents \/ parse_declaration_list \/ parse_rule_list
    \/ parse_stylesheet \/ ReturnResult \/ parse_one_component_value
    \/ parse_one_declaration \/ parse_one_rule \/ Reparse

NextTok ==
    \/ Whitespace \/ UnicodeRange \/ Ident \/ Number \/ AtSign \/ Hash
    \/ OpenBlock \/ String \/ ConsumeComment \/ CDO \/ CDC \/ Column \/ Match
    \/ Delim \/ Return \/ Reserialize

Next == NextTok \/ NextParse

Spec == Init /\ [][Next]_vars

DimensionInputs ==
    {AstDimensionToken(1, 1, NumericValue(representation), representation,
                       representation = <<"1">>, unit) :
        representation \in {<<"1">>, <<"2", ".", "5">>},
        unit \in {<<"e">>, <<"E">>, <<"e", "-", "3">>, <<"E", "-", "3">>, <<"e", "3">>, <<"E", "3">>, <<"p", "x">>, <<"e", "m">>}}
\* tokenize(token.serialize()) for a dimension token
InitDimension ==
    /\ \E token \in DimensionInputs :
          /\ Start(serialize(<<token>>))
          /\ pass1 = <<token>>
    /\ pass = 2
    /\ fn = "tokenize"
    /\ NoCall

\* tokenize() alone, carried on by the interpreter for as long as it has a
\* step to take.  NextTok has a step exactly in the states TokEnabled; the
\* last conjunct is WF_vars(NextTok) with ENABLED <<NextTok>>_vars written as
\* that state predicate.
TokEnabled == fn = "tokenize" /\ (pc = "loop" \/ (pc = "done" /\ pass = 1))
SpecTok ==
    /\ (InitTok \/ InitDimension)
    /\ [][NextTok]_vars
    /\ WF_vars(Return)
    /\ ([]<>(~TokEnabled) \/ []<><<NextTok>>_vars)

(***************************************************************************)
(* The functions of __init__.py, utils.py, bytes.py and color4.py, each    *)
(* called once on an input: fn is the function, input its argument and     *)
(* result what the call gave (Returned, ReturnedNone or Raised).  The      *)
(* state of tokenize() is not used.                                        *)
(***************************************************************************)
MaxChars == 2
MaxTokens == 3

SeqsUpTo(set, n) == UNION {[1..k -> set] : k \in 0..n}

\* Strings for ascii_lower: letters, and the characters next to "A" and "Z"
LowerInputs == SeqsUpTo({"a", "A", "z", "Z", "@", "[", "1"}, MaxChars)

\* Lists for strip_whitespace_tokens
StripInputs ==
    SeqsUpTo({WhitespaceToken(1, 1), IdentToken(1, 1, <<"a">>),
              LiteralToken(1, 1, <<",">>)}, MaxTokens)

\* Byte strings and encodings for bytes.py
CharsetRule(label) == AT_CHARSET \o label \o <<"\"", ";">>
BytesInputs ==
    {<<>>, <<"a", "{", "}">>, <<"@", "c", "h", "a", "r", "s", "e", "t", " ", "\"", "u", "t", "f", "-", "8", "\"">>,
     <<"@", "c", "h", "a", "r", "s", "e", "t">>, <<"@", "c", "h", "a", "r", "s", "e", "t", " ", "u", "t", "f", "-", "8", ";">>}
    \cup {CharsetRule(label) \o rest :
            label \in {<<"u", "t", "f", "-", "8">>, <<"l", "a", "t", "i", "n", "1">>, <<"b", "o", "g", "u", "s">>, <<"u", "t", "f", "-", "1", "6", "b", "e">>, <<"U", "T", "F", "-", "8">>,
                       << " " >> \o <<"u", "t", "f", "-", "8">>, <<"u", "t", "f", "-", "8">> \o << "\n" >>},
            rest \in {<<>>, <<"a", "{", "}">>}}
ProtocolInputs == {NoLabel, <<"u", "t", "f", "-", "8">>, <<"l", "a", "t", "i", "n", "1">>, <<"b", "o", "g", "u", "s">>}
EnvironmentInputs == {NoEncoding, <<"w", "i", "n", "d", "o", "w", "s", "-", "1", "2", "5", "2">>}
DecodeInputs ==
    [css_bytes : BytesInputs, protocol_encoding : ProtocolInputs,
     link_encoding : EnvironmentInputs, document_encoding : EnvironmentInputs]

\* Component values for parse_color
One == [neg |-> FALSE, m |-> 1, e |-> 0]
Half == [neg |-> FALSE, m |-> 5, e |-> -1]
MinusOne == [neg |-> TRUE, m |-> 1, e |-> 0]
Fifty == [neg |-> FALSE, m |-> 5, e |-> 1]
TwoHundred == [neg |-> FALSE, m |-> 2, e |-> 2]
Ninety == [neg |-> FALSE, m |-> 9, e |-> 1]
Channels ==
    {NumberToken(1, 1, One, <<"1">>, TRUE),
     PercentageToken(1, 1, Fifty, <<"5", "0">>, TRUE),
     IdentToken(1, 1, <<"n", "o", "n", "e">>),
     AstDimensionToken(1, 1, Ninety, <<"9", "0">>, TRUE, <<"d", "e", "g">>),
     Function(1, 1, <<"a">>, <<>>)}
Alphas ==
    {NumberToken(1, 1, Half, <<"0", ".", "5">>, FALSE),
     PercentageToken(1, 1, TwoHundred, <<"2", "0", "0">>, TRUE),
     NumberToken(1, 1, MinusOne, <<"-", "1">>, TRUE),
     IdentToken(1, 1, <<"n", "o", "n", "e">>)}
Comma == LiteralToken(1, 1, <<",">>)
Slash == LiteralToken(1, 1, <<"/">>)
\* The lists of arguments of three channels, in each of the shapes, and in
\* shapes that are none of them
Modern(x, y, z) == <<x, WhitespaceToken(1, 1), y, WhitespaceToken(1, 1), z>>
Legacy(x, y, z) == <<x, Comma, y, Comma, z>>
ChannelLists ==
    UNION {{Modern(x, y, z), Legacy(x, y, z)} :
              <<x, y, z>> \in Channels \X Channels \X Channels}
\* The lists an alpha is added to
WithAlpha ==
    LET numeric == {x \in Channels : x.type \in {"number", "percentage"}}
    IN  UNION {{Modern(x, y, z), Legacy(x, y, z)} :
                  <<x, y, z>> \in numeric \X numeric \X numeric}
ArgumentLists ==
    ChannelLists
    \cup {list \o <<separator, a>> :
             list \in WithAlpha,
             separator \in {Slash, Comma, WhitespaceToken(1, 1)},
             a \in Alphas}
    \cup SeqsUpTo({NumberToken(1, 1, One, <<"1">>, TRUE), Comma}, 2)
FunctionNames ==
    {<<"r", "g", "b">>, <<"r", "g", "b", "a">>, <<"h", "s", "l">>, <<"h", "s", "l", "a">>, <<"h", "w", "b">>, <<"l", "a", "b">>, <<"l", "c", "h">>, <<"o", "k", "l", "a", "b">>, <<"o", "k", "l", "c", "h">>,
     <<"R", "G", "B">>, <<"f", "o", "o">>}
ColorInputs ==
    {Function(1, 1, name, arguments) :
        name \in FunctionNames, arguments \in ArgumentLists}
    \cup {Function(1, 1, <<"c", "o", "l", "o", "r">>, space \o arguments) :
             space \in {<<>>, <<IdentToken(1, 1, <<"s", "r", "g", "b">>), WhitespaceToken(1, 1)>>,
                        <<IdentToken(1, 1, <<"f", "o", "o">>), WhitespaceToken(1, 1)>>},
             arguments \in ArgumentLists}
    \cup {IdentToken(1, 1, value) :
             value \in {<<"r", "e", "d">>, <<"R", "E", "D">>, <<"r", "e", "b", "e", "c", "c", "a", "p", "u", "r", "p", "l", "e">>, <<"c", "u", "r", "r", "e", "n", "t", "c", "o", "l", "o", "r">>,
                        <<"C", "u", "r", "r", "e", "n", "t", "C", "o", "l", "o", "r">>, <<"t", "r", "a", "n", "s", "p", "a", "r", "e", "n", "t">>, <<"f", "o", "o">>, <<"n", "o", "n", "e">>}}
    \cup {HashToken(1, 1, value) :
             value \in {<<"f", "f", "f">>, <<"f", "f", "0", "8">>, <<"f", "f", "0", "0", "0", "0">>, <<"f", "f", "0", "0", "0", "0", "8", "0">>, <<"g", "g", "g">>, <<"f", "f">>,
                        <<"f", "f", "f", "f", "f">>}}
    \cup {NumberToken(1, 1, One, <<"1">>, TRUE),
          PercentageToken(1, 1, Fifty, <<"5", "0">>, TRUE),
          AstDimensionToken(1, 1, Ninety, <<"9", "0">>, TRUE, <<"d", "e", "g">>),
          StringToken(1, 1, <<"r", "e", "d">>), LiteralToken(1, 1, <<",">>),
          WhitespaceToken(1, 1), Comment(1, 1, <<"r", "e", "d">>),
          AtKeywordToken(1, 1, <<"r", "e", "d">>), CurlyBracketsBlock(1, 1, <<>>),
          ParenthesesBlock(1, 1, <<IdentToken(1, 1, <<"r", "e", "d">>)>>),
          ParseError(1, 1, <<"bad-string">>)}

InitLib ==
    /\ Start(<<>>)
    /\ pass = 1
    /\ pass1 = <<>>
    /\ it = 0
    /\ result = <<>>
    /\ skip_comments = FALSE
    /\ skip_whitespace = FALSE
    /\ \/ fn \in {"ascii_lower", "utils.ascii_lower"} /\ input \in LowerInputs
       \/ /\ fn \in {"strip_whitespace_tokens", "utils.strip_whitespace_tokens"}
          /\ input \in StripInputs
       \/ /\ fn \in {"decode_stylesheet_bytes", "parse_stylesheet_bytes"}
          /\ input \in DecodeInputs
       \/ fn = "parse_color" /\ input \in ColorInputs

\* The call of name returns or raises what outcome tells
Call(name, outcome) ==
    /\ fn = name
    /\ pc = "loop"
    /\ result' = outcome
    /\ exc' = outcome.exc
    /\ pc' = IF outcome.exc = None THEN "done" ELSE "raised"
    /\ UNCHANGED <<css, pos, token_start_pos, line, last_newline, tokens,
                   end_char, stack, pass, pass1>>
    /\ UNCHANGED <<fn, input, it, skip_comments, skip_whitespace>>

CallAsciiLower == Call("ascii_lower", Returned(ascii_lower(input)))
CallUtilsAsciiLower == Call("utils.ascii_lower", utils_ascii_lower(input))
CallStripWhitespaceTokens ==
    Call("strip_whitespace_tokens", strip_whitespace_tokens(input))
CallUtilsStripWhitespaceTokens ==
    Call("utils.strip_whitespace_tokens", utils_strip_whitespace_tokens(input))
CallDecodeStylesheetBytes ==
    Call("decode_stylesheet_bytes",
         decode_stylesheet_bytes(input.css_bytes, input.protocol_encoding,
                                 input.link_encoding, input.document_encoding))
CallParseStylesheetBytes ==
    Call("parse_stylesheet_bytes",
         parse_stylesheet_bytes(input.css_bytes, input.protocol_encoding,
                                input.link_encoding, input.document_encoding))
CallParseColor == Call("parse_color", parse_color(input))

NextLib ==
    \/ CallAsciiLower \/ CallUtilsAsciiLower \/ CallStripWhitespaceTokens
    \/ CallUtilsStripWhitespaceTokens \/ CallDecodeStylesheetBytes
    \/ CallParseStylesheetBytes \/ CallParseColor

SpecLib == InitLib /\ [][NextLib]_vars

(***************************************************************************)
(* The properties.                                                         *)
(***************************************************************************)
Structure(nodes) == [i \in 1..Len(nodes) |-> At_(nodes[i], 0, 0)]

\* C1: for every string, tokenizing it, serializing the list and tokenizing
\* the serialized text again gives a list equal to the first one, source
\* positions ignored.
C1_RoundTrip ==
    (fn = "tokenize" /\ pass = 2 /\ pc = "done")
        => Structure(tokens) = Structure(pass1)

\* C2: for every input the tokenizer and the parse functions return a
\* result; no exception is raised.
C2_NoException == pc # "raised"

\* What parse_one_declaration was given: the name, the colon and the rest.
NameOf == _next_significant(input, 0)
ColonOf == _next_significant(input, NameOf.it)
AfterColon == SubSeq(input, ColonOf.it + 1, Len(input))
HasNameAndColon ==
    NameOf.token.type = "ident" /\ Eq(ColonOf.token, <<":">>)
LastSignificantBefore(nodes, k) ==
    LET hits == {i \in 1..(k - 1) : Significant(nodes[i])}
    IN  IF hits = {} THEN 0 ELSE CHOOSE i \in hits : \A j \in hits : j <= i
\* The index of the ! when nodes ends with !, an ident important and only
\* whitespace and comments between and after them; 0 when it does not.
FinalBang(nodes) ==
    LET k == LastSignificantBefore(nodes, Len(nodes) + 1)
        b == IF k = 0 THEN 0 ELSE LastSignificantBefore(nodes, k)
    IN  IF /\ b # 0
           /\ nodes[k].type = "ident"
           /\ nodes[k].lower_value = IMPORTANT
           /\ Eq(nodes[b], <<"!">>)
        THEN b ELSE 0

\* C3: a parsed declaration has important = true exactly when the tokens
\* after its colon end with !, optional whitespace and comments, an ident
\* equal to important ASCII-case-insensitively and then only whitespace and
\* comments, whatever comes before that final !; its value is then the
\* tokens before that !, and otherwise all the tokens.
C3_Important ==
    (fn = "parse_one_declaration" /\ pc = "done"
     /\ result[1].type = "declaration")
        => LET b == FinalBang(AfterColon)
           IN  /\ result[1].important = (b # 0)
               /\ result[1].value = IF b # 0 THEN SubSeq(AfterColon, 1, b - 1)
                                    ELSE AfterColon

IsSemicolon(token) == Eq(token, <<";">>)
EndsRun(token) == Eq(token, <<";">>) \/ token.type = "{} block"
StartsItem(token) ==
    Significant(token) /\ token.type # "at-keyword" /\ ~Eq(token, <<";">>)

\* C4: in parse_blocks_contents a significant token that is neither an
\* at-keyword nor ; starts an item that takes the tokens up to the next ; or
\* through the next {} block; the item is the declaration when the run
\* parses as one, else a qualified rule with exactly the run before the
\* block as prelude and the block's content when the run ends with a block,
\* else exactly one invalid error, and parsing resumes after the ;.
C4_BlocksContents ==
    [][(parse_blocks_contents /\ StartsItem(input[it + 1])) =>
        LET start == it + 1
            e == IF input[start].type = "{} block" THEN start
                 ELSE FirstAfter(input, start,
                                 {t \in Items(input) : EndsRun(t)})
            end == IF e = 0 THEN Len(input) ELSE e
            block == e # 0 /\ input[end].type = "{} block"
            run == SubSeq(input, start, IF e # 0 /\ ~block THEN end - 1 ELSE end)
            declaration == _parse_declaration(run[1], Tail(run), 0, TRUE).node
            node == result'[Len(result')]
        IN  /\ Len(result') = Len(result) + 1
            /\ SubSeq(result', 1, Len(result)) = result
            /\ it' = end
            /\ IF declaration.type = "declaration"
               THEN node = declaration
               ELSE IF block
               THEN /\ node.type = "qualified-rule"
                    /\ node.prelude = SubSeq(run, 1, Len(run) - 1)
                    /\ node.content = input[end].content
               ELSE node.type = "error" /\ node.kind = <<"invalid">>]_vars

C4_Witness ==
    /\ fn = "parse_blocks_contents"
    /\ pc = "done"
    /\ \E i, j \in 1..Len(result) :
          /\ result[i].type = "qualified-rule"
          /\ Len(result[i].prelude) >= 2
          /\ result[j].type = "error"

\* C5: a declaration whose value holds a {} block together with any other
\* token that is neither whitespace nor a comment, before or after the
\* block, is returned as an invalid error, never as a declaration.
C5_BlockWithOtherToken ==
    (fn = "parse_one_declaration" /\ pc = "done" /\ HasNameAndColon
     /\ LET b == FinalBang(AfterColon)
            value == IF b # 0 THEN SubSeq(AfterColon, 1, b - 1) ELSE AfterColon
        IN  \E i, j \in 1..Len(value) :
               /\ i # j
               /\ value[i].type = "{} block"
               /\ Significant(value[j]))
        => (result[1].type = "error" /\ result[1].kind = <<"invalid">>)

\* parse_declaration_list as a function of what is left of the input
RECURSIVE DeclarationListFrom(_, _, _, _)
DeclarationListFrom(nodes, taken, no_comments, no_whitespace) ==
    IF taken >= Len(nodes) THEN <<>>
    ELSE LET iteration == DeclarationListIteration(nodes, taken, no_comments,
                                                   no_whitespace)
         IN  iteration.nodes
             \o DeclarationListFrom(nodes, iteration.it, no_comments,
                                    no_whitespace)
Without(nodes, from, to) ==
    SubSeq(nodes, 1, from - 1) \o SubSeq(nodes, to + 1, Len(nodes))
\* The declaration that starts at input[start] fails: its first token is
\* not an ident, or no : follows the name before the next ;.
FailsAsDeclaration(start) ==
    LET semicolon == FirstAfter(input, start,
                                {t \in Items(input) : IsSemicolon(t)})
        stop == IF semicolon = 0 THEN Len(input) ELSE semicolon - 1
        colon == _next_significant(SubSeq(input, 1, stop), start)
    IN  input[start].type # "ident" \/ ~Eq(colon.token, <<":">>)

\* C6: in parse_declaration_list a declaration that fails (first token not
\* an ident, or no : after the name) appends exactly one invalid error and
\* takes the tokens through the next ;, and the nodes produced for the rest
\* of the input are those produced when the failed declaration is absent.
C6_FailedDeclaration ==
    [][(/\ parse_declaration_list
        /\ StartsItem(input[it + 1])
        /\ FailsAsDeclaration(it + 1)) =>
        LET semicolon == FirstAfter(input, it + 1,
                                    {t \in Items(input) : IsSemicolon(t)})
            end == IF semicolon = 0 THEN Len(input) ELSE semicolon
            node == result'[Len(result')]
        IN  /\ Len(result') = Len(result) + 1
            /\ SubSeq(result', 1, Len(result)) = result
            /\ node.type = "error" /\ node.kind = <<"invalid">>
            /\ it' = end
            /\ DeclarationListFrom(input, end, skip_comments, skip_whitespace)
               = DeclarationListFrom(Without(input, it + 1, end), it,
                                     skip_comments, skip_whitespace)]_vars

C6_Witness ==
    /\ fn = "parse_declaration_list"
    /\ pc = "done"
    /\ \E i, j \in 1..Len(result) :
          /\ i < j
          /\ result[i].type = "error"
          /\ result[j].type = "declaration"

\* C7: each opener {, [ or ( creates exactly one block node and opens one
\* more level: the tokenizer goes on, one level deeper.
C7_OpenerOpensBlock ==
    [][OpenBlock => (pc' = "loop" /\ Len(stack') = Len(stack) + 1)]_vars

\* C8: a closing bracket ), ] or } that is not the closer of the innermost
\* open block, or that comes when no block is open, gives a parse-error node
\* whose kind is that closer.
C8_UnmatchedCloser ==
    [][(Delim /\ c \in {")", "]", "}"}) =>
        LET node == tokens'[Len(tokens')]
        IN  node.type = "error" /\ node.kind = <<c>>]_vars

\* The position of the character at index p of the preprocessed text
SourceLine(p) == 1 + Count(css, "\n", 0, p)
SourceColumn(p) == p - RFind(css, "\n", 0, p)

\* C9: every node of the tokenizer, block nodes included, has source_line 1
\* plus the newlines before its first character and source_column 1 plus
\* the characters between the last newline before it and that character: a
\* node appended by an iteration is positioned at the character the
\* iteration started at, and an iteration that starts at an opener appends
\* a node.
C9_SourcePositions ==
    [][(fn = "tokenize" /\ pc = "loop" /\ pos < length) =>
        /\ Len(tokens') = Len(tokens) + 1 =>
              LET node == tokens'[Len(tokens')]
              IN  /\ node.source_line = SourceLine(pos)
                  /\ node.source_column = SourceColumn(pos)
        /\ Branch = "open" => Len(tokens') = Len(tokens) + 1]_vars

PositionLe(a, b) ==
    \/ a.source_line < b.source_line
    \/ a.source_line = b.source_line /\ a.source_column <= b.source_column
Monotone(nodes) ==
    \A i, j \in 1..Len(nodes) : i < j => PositionLe(nodes[i], nodes[j])

\* C10: of two nodes of the same list, in the tokenizer's output and in the
\* list returned by parse_stylesheet, parse_rule_list, parse_declaration_list
\* or parse_blocks_contents (parse errors included), the one that comes
\* first has the position that is lexicographically less than or equal.
C10_PositionMonotonicity ==
    /\ Monotone(tokens)
    /\ fn \in ListFunctions =>
          /\ Monotone(result)
          /\ \A i \in 1..Len(result) :
                Monotone(result[i].content) /\ Monotone(result[i].prelude)

C10_Witness ==
    /\ fn \in ListFunctions
    /\ pc = "done"
    /\ \E i, j \in 1..Len(result) :
          /\ i < j
          /\ result[i].type = "error"
          /\ result[j].source_line > result[i].source_line

\* The end of the numeric literal that starts at pos, exponent included
LiteralEnd ==
    LET p == NumberMatch(css, pos).end
        sci == ScientificMatch(css, p)
    IN  IF sci # -1 THEN sci ELSE p
HasExponent == ScientificMatch(css, NumberMatch(css, pos).end) # -1
Appended == Len(tokens') = Len(tokens) + 1
NewToken == tokens'[Len(tokens')]
Chars(s) == {s[i] : i \in 1..Len(s)}

\* C11: a numeric token is an integer exactly when its literal has neither a
\* decimal point nor an exponent, and then its value is that integer; a
\* literal with an exponent (1e3) gives a numeric token that is not an
\* integer.
C11_IntegerIffPlain ==
    [][Number =>
        /\ Appended =>
              /\ NewToken.is_integer <=>
                    Chars(NewToken.representation) \cap {".", "e", "E"} = {}
              /\ NewToken.is_integer => NewToken.number.e >= 0
        /\ HasExponent => (Appended /\ ~NewToken.is_integer)]_vars

\* C12: the literal includes its exponent; after the whole literal a % gives
\* one percentage token, otherwise the start of an identifier gives one
\* dimension token with that identifier as unit, otherwise the token is a
\* number; the representation is the literal as written, and a dimension
\* never has the unit %.
C12_NumericKinds ==
    [][Number =>
        /\ Appended =>
              /\ NewToken.representation = Slice(css, pos, LiteralEnd)
              /\ NewToken.type = "dimension" => NewToken.unit # <<"%">>
              /\ NewToken.type =
                    IF LiteralEnd < length /\ At(css, LiteralEnd) = "%"
                    THEN "percentage"
                    ELSE IF /\ LiteralEnd < length
                            /\ _is_ident_start(css, LiteralEnd)
                    THEN "dimension"
                    ELSE "number"
        /\ (LiteralEnd < length /\ At(css, LiteralEnd) = "%") =>
              (Appended /\ pos' = LiteralEnd + 1)]_vars

\* The start of a name as C13 states it: a letter, _, a character from
\* U+0080 on, or a backslash that a character other than a newline follows
NameStart(s, p) ==
    \/ At(s, p) \in IdentStartLetters \cup NonAscii
    \/ At(s, p) = "\\" /\ p + 1 < Len(s) /\ At(s, p + 1) # "\n"
IdentifierStart(s, p) ==
    \/ NameStart(s, p)
    \/ /\ At(s, p) = "-"
       /\ p + 1 < Len(s)
       /\ NameStart(s, p + 1) \/ At(s, p + 1) = "-"

\* C13: the tokenizer starts an identifier at a character exactly when it
\* is a letter, _, a character from U+0080 on, or a backslash not followed
\* by a newline, or a - followed by one of those or by another -; and after
\* # it starts a hash token exactly when a name character (from U+0080 on
\* included) or a valid escape follows.  (U+ of a unicode range and -->
\* are recognised before identifiers.)
C13_IdentStart ==
    /\ []((/\ fn = "tokenize" /\ pc = "loop" /\ pos < length
            /\ Branch \notin {"unicode-range", "-->"})
              => (Branch = "ident" <=> IdentifierStart(css, pos)))
    /\ [][Hash =>
            ((pos + 1 < length /\
                (\/ At(css, pos + 1) \in HashNameChars \cup NonAscii
                 \/ NameStart(css, pos + 1)))
             <=> ~(Appended /\ NewToken.type = "literal"))]_vars

\* C14: a backslash followed by one to six hexadecimal digits takes the
\* digits and at most one whitespace after them and gives the character of
\* that code point (the replacement character for zero and for a code point
\* above the maximum); no value of an identifier, string, url or hash and
\* no unit contains U+0000.
C14_HexEscape ==
    /\ [](\A i \in 1..Len(tokens) :
            NUL \notin Chars(tokens[i].value) \cup Chars(tokens[i].unit))
    /\ [][(Ident /\ c = "\\" /\ At(css, pos + 1) \in HexDigits) =>
            LET digits == ScanWhile(css, pos + 1, Min(pos + 7, length),
                                    HexDigits)
                after == IF /\ digits < length
                            /\ At(css, digits) \in WhitespaceChars
                         THEN digits + 1 ELSE digits
            IN  /\ Appended
                /\ NewToken.type \in {"ident", "function", "url"}
                /\ NewToken.value # <<>>
                /\ pos' >= after]_vars

\* The index of the first quote like the opening one or newline after the
\* quote at pos, or the length of the text
StringEnd ==
    LET hits == {i \in (pos + 1)..length :
                    i = length \/ At(css, i) \in {c, "\n"}}
    IN  CHOOSE i \in hits : \A j \in hits : i <= j

\* C15: a quoted string ends at the first unescaped quote like the opening
\* one and its value is the text between the quotes, escapes resolved; a
\* newline or the end of the input before that quote gives a parse error of
\* kind bad-string, and the newline is left to the next token.  (Stated for
\* strings without a backslash.)
C15_QuotedString ==
    [][(String /\ "\\" \notin Chars(Slice(css, pos, StringEnd))) =>
        /\ Appended
        /\ pos' = IF StringEnd < length /\ At(css, StringEnd) = c
                  THEN StringEnd + 1 ELSE StringEnd
        /\ IF StringEnd < length /\ At(css, StringEnd) = c
           THEN /\ NewToken.type = "string"
                /\ NewToken.value = Slice(css, pos + 1, StringEnd)
           ELSE /\ NewToken.type = "error"
                /\ NewToken.kind = <<"bad-string">>]_vars

\* C16: after url( the tokenizer appends exactly one node, a url token or a
\* parse error of kind bad-url, and goes on after the ) that ends it or at
\* the end of the input.
C16_Url ==
    [][(Ident /\ StartsWith(css, <<"u", "r", "l", "(">>, pos)) =>
        /\ pc' = "loop"
        /\ Appended
        /\ \/ NewToken.type = "url"
           \/ /\ NewToken.type = "error"
              /\ NewToken.kind = <<"bad-url">>
        /\ \/ pos' = length
           \/ pos' >= pos + 5 /\ At(css, pos' - 1) = ")"]_vars

\* C17: the tokenizer keeps a comment as a comment node whose value is the
\* text between the opening and the closing marker, or the text up to the
\* end of the input when the comment is not closed; the node serializes as
\* the opening marker, the value and the closing marker.
C17_CommentKept ==
    [][ConsumeComment =>
        LET end == Find(css, <<"*", "/">>, pos + 2)
            value == Slice(css, pos + 2, IF end = -1 THEN length ELSE end)
        IN  /\ Appended
            /\ NewToken.type = "comment"
            /\ NewToken.value = value
            /\ SerializeNode(NewToken) = <<"/", "*">> \o value \o <<"*", "/">>
       ]_vars

\* C18: after U+, digits and wildcards (six at most together) give the range
\* from the digits with 0 for each ? to the digits with F for each ?;
\* otherwise a - and a hexadecimal digit after the digits give the range up
\* to the one to six digits that follow; otherwise the range is the one code
\* point.  A unicode-range token has start <= end <= the maximum, and a
\* start above the maximum or an end below the start gives a parse error in
\* place of the token.
C18_UnicodeRange ==
    [][UnicodeRange =>
        LET p1 == ScanWhile(css, pos + 2, Min(pos + 8, length), HexDigits)
            digits == Slice(css, pos + 2, p1)
            p2 == ScanWhile(css, p1, Min(pos + 8, length), {"?"})
            wildcards == p2 - p1
            dash == /\ wildcards = 0
                    /\ p2 + 1 < length
                    /\ At(css, p2) = "-"
                    /\ At(css, p2 + 1) \in HexDigits
            p3 == ScanWhile(css, p2 + 1, Min(p2 + 7, length), HexDigits)
            start == IntOf(digits \o [i \in 1..wildcards |-> "0"], 16)
            end == IF wildcards > 0
                   THEN IntOf(digits \o [i \in 1..wildcards |-> "F"], 16)
                   ELSE IF dash THEN IntOf(Slice(css, p2 + 1, p3), 16)
                   ELSE start
        IN  /\ Appended
            /\ pos' = IF dash THEN p3 ELSE p2
            /\ IF start > MaxUnicode \/ end < start
               THEN NewToken.type = "error"
               ELSE /\ NewToken.type = "unicode-range"
                    /\ NewToken.range = <<start, Min(end, MaxUnicode)>>]_vars

SignificantOf(nodes) == SelectSeq(nodes, Significant)
FirstSignificant(nodes) ==
    FirstAfter(nodes, 0, {t \in Items(nodes) : Significant(t)})

\* Where the rule that starts at the first significant token of the input
\* ends: the index of its {} block, or of its semicolon for an at-rule; 0
\* when the rule goes on to the end of the input
FirstRuleEnd ==
    LET first == FirstSignificant(input)
        Ends(token) ==
            \/ token.type = "{} block"
            \/ input[first].type = "at-keyword" /\ Eq(token, <<";">>)
    IN  IF input[first].type = "{} block" THEN first
        ELSE FirstAfter(input, first, {t \in Items(input) : Ends(t)})
AfterFirstRule ==
    IF FirstRuleEnd = 0 THEN <<>>
    ELSE SignificantOf(SubSeq(input, FirstRuleEnd + 1, Len(input)))
ExtraInput(token) ==
    ParseError(token.source_line, token.source_column, <<"extra-input">>)

\* C19: parse_one_component_value returns an error of kind empty when the
\* input has no token other than whitespace and comments, an error of kind
\* extra-input at the second such token when it has more than one, and the
\* token itself otherwise; parse_one_rule returns an error of kind empty
\* when there is none, and an error of kind extra-input at the first such
\* token after the first rule when there is one, whether the rule ended with
\* a {} block or with a semicolon, and one rule or error for that rule
\* otherwise.
C19_SingleItem ==
    /\ (fn = "parse_one_component_value" /\ pc = "done") =>
          LET significant == SignificantOf(input)
          IN  result =
                IF significant = <<>> THEN <<ParseError(1, 1, <<"empty">>)>>
                ELSE IF Len(significant) > 1
                THEN <<ExtraInput(significant[2])>>
                ELSE <<significant[1]>>
    /\ (fn = "parse_one_rule" /\ pc = "done") =>
          IF SignificantOf(input) = <<>>
          THEN result = <<ParseError(1, 1, <<"empty">>)>>
          ELSE IF AfterFirstRule # <<>>
          THEN result = <<ExtraInput(AfterFirstRule[1])>>
          ELSE /\ Len(result) = 1
               /\ result[1].type \in {"qualified-rule", "at-rule", "error"}
               /\ result[1].kind \notin {<<"empty">>, <<"extra-input">>}
               /\ result[1].source_line =
                     input[FirstSignificant(input)].source_line
                  \/ result[1].type = "error"

\* parse_one_rule has returned extra-input for an at-rule that a semicolon
\* ended and that a token follows.
C19_Witness ==
    /\ fn = "parse_one_rule"
    /\ pc = "done"
    /\ SignificantOf(input) # <<>>
    /\ input[FirstSignificant(input)].type = "at-keyword"
    /\ FirstRuleEnd # 0
    /\ Eq(input[FirstRuleEnd], <<";">>)
    /\ AfterFirstRule # <<>>
    /\ result = <<ExtraInput(AfterFirstRule[1])>>

\* parse_rule_list as a function of what is left of the input
RECURSIVE RuleListFrom(_, _, _, _)
RuleListFrom(nodes, taken, no_comments, no_whitespace) ==
    IF taken >= Len(nodes) THEN <<>>
    ELSE LET iteration == RuleListIteration(nodes, taken, no_comments,
                                            no_whitespace)
         IN  iteration.nodes
             \o RuleListFrom(nodes, iteration.it, no_comments, no_whitespace)

IsCDOorCDC(token) ==
    Eq(token, <<"<", "!", "-", "-">>) \/ Eq(token, <<"-", "-", ">">>)

\* The input from index taken on, without the <!-- and --> that stand
\* between rules: a rule goes from the token that starts it to what
\* _consume_rule takes last
RECURSIVE BetweenRulesRemoved(_, _)
BetweenRulesRemoved(nodes, taken) ==
    IF taken >= Len(nodes) THEN <<>>
    ELSE LET token == nodes[taken + 1]
             end == _consume_rule(token, nodes, taken + 1).it
         IN  IF ~Significant(token)
             THEN <<token>> \o BetweenRulesRemoved(nodes, taken + 1)
             ELSE IF IsCDOorCDC(token)
             THEN BetweenRulesRemoved(nodes, taken + 1)
             ELSE SubSeq(nodes, taken + 1, end)
                  \o BetweenRulesRemoved(nodes, end)

StartsAt(node, token) ==
    /\ node.source_line = token.source_line
    /\ node.source_column = token.source_column

\* C20: parse_stylesheet returns what parse_rule_list returns for the same
\* input without the top-level <!-- and --> between rules: no rule of its
\* result starts at such a literal, while parse_rule_list starts a qualified
\* rule at one; for an input without them the two results are the same.
C20_StylesheetSkipsCDOCDC ==
    /\ (fn = "parse_stylesheet" /\ pc = "done") =>
          /\ result = RuleListFrom(BetweenRulesRemoved(input, 0), 0,
                                   skip_comments, skip_whitespace)
          /\ \A i \in 1..Len(result) :
                /\ ~IsCDOorCDC(result[i])
                /\ (result[i].type = "qualified-rule"
                    /\ result[i].prelude # <<>>)
                      => ~IsCDOorCDC(result[i].prelude[1])
          /\ (\A i \in 1..Len(input) : ~IsCDOorCDC(input[i])) =>
                result = RuleListFrom(input, 0, skip_comments, skip_whitespace)
    /\ (/\ fn = "parse_rule_list" /\ pc = "done"
        /\ SignificantOf(input) # <<>>
        /\ IsCDOorCDC(SignificantOf(input)[1])) =>
          /\ SignificantOf(result) # <<>>
          /\ LET rule == SignificantOf(result)[1]
             IN  \/ /\ rule.type = "qualified-rule"
                    /\ StartsAt(rule, SignificantOf(input)[1])
                    /\ rule.prelude[1] = SignificantOf(input)[1]
                 \/ \* the rule has no {} block
                    /\ rule.type = "error"
                    /\ rule.kind = <<"invalid">>

\* parse_stylesheet has returned two rules or more from an input with a <!--
\* or --> between rules, where parse_rule_list returns something else.
C20_Witness ==
    /\ fn = "parse_stylesheet"
    /\ pc = "done"
    /\ Len(BetweenRulesRemoved(input, 0)) < Len(input)
    /\ Len(SignificantOf(result)) >= 2
    /\ result # RuleListFrom(input, 0, skip_comments, skip_whitespace)

(***************************************************************************)
(* The library functions                                                   *)
(***************************************************************************)
Finished(name) == fn = name /\ pc # "loop"

\* The label of a rule @charset "label"; at byte 0, or <<>>
CharsetLabel(bytes) ==
    LET end_quote == Find(bytes, <<"\"">>, 10)
    IN  IF /\ StartsWith(bytes, AT_CHARSET, 0)
           /\ end_quote # -1
           /\ end_quote < 100
           /\ StartsWith(bytes, <<"\"", ";">>, end_quote)
        THEN Slice(bytes, 10, end_quote)
        ELSE <<>>
\* The encoding the priority order gives
PickedEncoding(call) ==
    LET at_charset == lookup(CharsetLabel(call.css_bytes))
    IN  IF lookup(call.protocol_encoding) # NoEncoding
        THEN lookup(call.protocol_encoding)
        ELSE IF at_charset # NoEncoding
        THEN (IF at_charset \in {<<"u", "t", "f", "-", "1", "6", "b", "e">>,
                                 <<"u", "t", "f", "-", "1", "6", "l", "e">>}
              THEN UTF8 ELSE at_charset)
        ELSE IF lookup(call.link_encoding) # NoEncoding
        THEN lookup(call.link_encoding)
        ELSE IF lookup(call.document_encoding) # NoEncoding
        THEN lookup(call.document_encoding)
        ELSE UTF8

\* C21: decode_stylesheet_bytes returns the text decoded with the first of:
\* the known encoding of protocol_encoding, the known encoding of the label
\* of a rule @charset "label"; at byte 0 (UTF-8 for a UTF-16 label), the
\* environment encoding, UTF-8.
C21_EncodingPriority ==
    Finished("decode_stylesheet_bytes") =>
        /\ pc = "done"
        /\ result.value.decoded.encoding = PickedEncoding(input)

FoldedChar(ch) == CASE ch = "A" -> "a" [] ch = "Z" -> "z" [] OTHER -> ch

\* C26: ascii_lower returns its argument with A to Z replaced by a to z and
\* every other character unchanged, and ascii_lower of what it returns is
\* what it returns.
C26_AsciiLower ==
    (fn \in {"ascii_lower", "utils.ascii_lower"} /\ pc # "loop") =>
        /\ pc = "done"
        /\ ~result.is_none
        /\ result.value = [i \in 1..Len(input) |-> FoldedChar(input[i])]
        /\ ascii_lower(result.value) = result.value

\* The tokens from the first to the last one that is not whitespace
Stripped(list) ==
    LET others == {i \in 1..Len(list) : list[i].type # "whitespace"}
        first == CHOOSE i \in others : \A j \in others : i <= j
        last == CHOOSE i \in others : \A j \in others : j <= i
    IN  IF others = {} THEN <<>> ELSE SubSeq(list, first, last)

\* C27: strip_whitespace_tokens returns the tokens of the list from its
\* first to its last token that is not whitespace, and the empty list when
\* there is none; the list given is left as it was.
StripFunctions ==
    {"strip_whitespace_tokens", "utils.strip_whitespace_tokens"}
C27_StripWhitespaceTokens ==
    /\ []((fn \in StripFunctions /\ pc # "loop") =>
            (pc = "done" /\ result.value = Stripped(input)))
    /\ [][(fn \in StripFunctions) => (UNCHANGED input)]_vars

\* C22: parse_color raises nothing, and returns None, the currentColor
\* string or a color, whatever the component value it is given.
C22_ParseColorNeverRaises ==
    Finished("parse_color") =>
        /\ pc = "done"
        /\ \/ result.is_none
           \/ result.value.kind \in {"currentColor", "Color"}

\* The arguments of a color function without whitespace and comments, and
\* without the color space of color()
ColorArguments(function) ==
    LET significant == SelectSeq(function.arguments, Significant)
    IN  IF function.lower_name = <<"c", "o", "l", "o", "r">> /\ significant # <<>>
        THEN Tail(significant) ELSE significant
CommaSeparated(list) ==
    /\ Len(list) \in {5, 7}
    /\ \A i \in 1..Len(list) : i % 2 = 0 => Eq(list[i], <<",">>)
AcceptedShape(list) ==
    \/ CommaSeparated(list)
    \/ Len(list) = 3
    \/ Len(list) = 5 /\ Eq(list[4], <<"/">>)

NoAlpha(list) == Len(list) = 3 \/ (Len(list) = 5 /\ CommaSeparated(list))

\* C23: parse_color of a function whose arguments are in none of the three
\* shapes returns None; the alpha of a color it returns for a function is
\* between 0 and 1, and is 1 when the arguments hold no alpha.
C23_ArgumentShapes ==
    (Finished("parse_color") /\ input.type = "function") =>
        /\ ~AcceptedShape(ColorArguments(input)) =>
              (pc = "done" /\ result.is_none)
        /\ (pc = "done" /\ ~result.is_none) =>
              /\ 0 <= result.value.alpha.num
              /\ result.value.alpha.num <= result.value.alpha.den
              /\ NoAlpha(ColorArguments(input)) =>
                    result.value.alpha.num = result.value.alpha.den

\* C29: the position never exceeds the length of the text; an iteration of
\* the loop of tokenize moves the position forward or leaves the loop; and
\* tokenize, once in its loop, leaves it.
C29_TokenizeTerminates ==
    /\ [](fn = "tokenize" => pos <= length)
    /\ [][(fn = "tokenize" /\ pc = "loop") =>
             (pos' > pos \/ pc' # "loop")]_vars
    /\ (fn = "tokenize" /\ pc = "loop") ~> (pc # "loop")

\* tokenize has returned at the end of a text after three iterations or more
C29_Witness ==
    /\ fn = "tokenize"
    /\ pass = 1
    /\ pc = "done"
    /\ pos = length
    /\ Len(tokens) >= 3

\* The closer of an opener
Closer(opener) ==
    CASE opener = "{" -> "}" [] opener = "[" -> "]" [] opener = "(" -> ")"

C24_DimensionRoundTrip ==
    (/\ fn = "tokenize" /\ pass = 2 /\ pc # "loop"
     /\ Len(pass1) = 1 /\ pass1[1].type = "dimension") =>
        /\ pc = "done"
        /\ Len(tokens) = 1
        /\ tokens[1].type = "dimension"
        /\ tokens[1].representation = pass1[1].representation
        /\ tokens[1].case_sensitive_unit = pass1[1].case_sensitive_unit

\* The nodes of a list without their positions
RECURSIVE Unplaced(_)
Unplaced(nodes) ==
    [i \in 1..Len(nodes) |->
        [nodes[i] EXCEPT !.source_line = 0, !.source_column = 0,
                         !.content = Unplaced(@)]]

\* C25: parse_one_declaration of the serialization of a declaration it
\* returned gives a declaration of the same name, the same value and the
\* same important flag.
C25_DeclarationRoundTrip ==
    (fn = "parse_one_declaration" /\ pass = 2 /\ pc = "done") =>
        /\ result[1].type = "declaration"
        /\ result[1].name = pass1[1].name
        /\ Unplaced(result[1].value) = Unplaced(pass1[1].value)
        /\ result[1].important = pass1[1].important

====
